---- MODULE Spec2Model ----
(***************************************************************************)
(* Model of the project-memory hook engine: the PreToolUse hook            *)
(* (hooks/scripts/pre-tool-use.js), the PostToolUse hook                   *)
(* (hooks/scripts/post-tool-use.js), the SessionStart hook and the helper  *)
(* scripts (save-decision.js, save-research.js, check-memory.js,           *)
(* session-summary.js) acting on the files under <project>/.ai-memory.     *)
(*                                                                         *)
(* Every hook is a short-lived process: it reads the files, decides, and   *)
(* overwrites the files it changes.  One action models one whole run.      *)
(*                                                                         *)
(* Time: the clock `now` stands for Date.now().  It is counted in units of *)
(* TimeUnit milliseconds (five minutes), and every process runs            *)
(* at a multiple of TimeUnit.  For such times  b - a < THROTTLE_MS  and    *)
(* b - a < MEMORY_CHECK_TTL_MS  hold exactly when the difference in units  *)
(* is below the constant divided by TimeUnit, rounded up.                  *)
(*                                                                         *)
(* Text: a command line is a sequence of whitespace-separated tokens and a *)
(* description is a sequence of lower-case words.  A regular expression of *)
(* the source is modelled by the test it performs on those tokens.         *)
(***************************************************************************)
EXTENDS Integers, Sequences, FiniteSets, TLC

\* ------------------------------------------------------------------------
\* Bounds of the model (not program constants)
\* ------------------------------------------------------------------------
MaxTime == 3
MaxRecords == 1
MaxTasks == 2
MaxCalls == 1

\* ------------------------------------------------------------------------
\* Program constants
\* ------------------------------------------------------------------------
TimeUnit == 5 * 60 * 1000
InUnits(ms) == (ms + TimeUnit - 1) \div TimeUnit
THROTTLE_MS == InUnits(3 * 60 * 1000)
MEMORY_CHECK_TTL_MS == InUnits(10 * 60 * 1000)
ESCALATION_THRESHOLD == 2
SUMMARY_CHECKPOINT_CALLS == 20
\* hasResearch: "stat.size > 50"
RESEARCH_MIN_SIZE == 50
\* size in bytes of one JSON line appended by save-research.js / save-decision.js
\* (the fixed keys of the entry alone are longer than RESEARCH_MIN_SIZE)
RecordBytes == 200

MATCHED_TOOLS == {"Bash", "WebFetch", "WebSearch", "Task"}
IMMEDIATE_SAVE_TOOLS == {"Task", "WebSearch", "WebFetch"}
TASK_TOOLS == {"TaskCreate", "TaskUpdate"}
EXPLORATION_SUBAGENTS ==
  {"Explore", "Plan", "general-purpose",
   "feature-dev:code-explorer", "feature-dev:code-architect"}

\* ------------------------------------------------------------------------
\* Text helpers
\* ------------------------------------------------------------------------
\* The script names that a command token contains as a substring
\* (String.prototype.includes on the command text).
SubstringsOf(tok) ==
  CASE tok = "scripts/save-decision.js"   -> {"save-decision"}
    [] tok = "scripts/save-research.js"   -> {"save-research"}
    [] tok = "scripts/check-memory.js"    -> {"check-memory"}
    [] tok = "scripts/session-summary.js" -> {"session-summary"}
    [] OTHER -> {}

includes(cmd, needle) ==
  \E i \in 1..Len(cmd) : needle \in SubstringsOf(cmd[i])

\* /^\s*w\b/ : the command starts with the word w
StartsWithWord(cmd, w) == Len(cmd) >= 1 /\ cmd[1] = w
\* /^\s*w\s+(a|b|..)\b/
StartsWithPair(cmd, w, seconds) ==
  Len(cmd) >= 2 /\ cmd[1] = w /\ cmd[2] \in seconds
\* /\bw\s/ : the word w occurs followed by white space
WordThenSpace(cmd, w) == \E i \in 1..Len(cmd) : cmd[i] = w /\ i < Len(cmd)
\* /\bw\s+v\b/
WordPair(cmd, w, seconds) ==
  \E i \in 1..Len(cmd) : cmd[i] = w /\ i < Len(cmd) /\ cmd[i+1] \in seconds

\* SAFE_OPERATIONAL_PATTERNS.some(p => p.test(cmd))
SAFE_OPERATIONAL_PATTERNS(cmd) ==
  \/ \E w \in {"mkdir", "touch", "cp", "mv", "rm", "chmod", "chown", "ln",
               "echo", "printf", "npx", "node", "cd", "pwd", "ls"} :
        StartsWithWord(cmd, w)
  \/ StartsWithPair(cmd, "cat", {">"})
  \/ StartsWithPair(cmd, "npm", {"install", "ci", "run", "start", "build", "test"})
  \/ StartsWithPair(cmd, "git", {"add", "commit", "push", "pull", "checkout",
                                 "switch", "branch", "merge", "rebase", "stash",
                                 "tag", "fetch", "clone", "init"})
  \/ StartsWithPair(cmd, "pip", {"install"})
  \/ StartsWithPair(cmd, "docker", {"build", "run", "push", "pull", "start",
                                    "stop", "rm", "exec"})

\* EXPLORATION_PATTERNS.some(p => p.test(cmd))
EXPLORATION_PATTERNS(cmd) ==
  \/ \E w \in {"curl", "wget", "grep", "rg", "ag", "ack", "locate"} :
        WordThenSpace(cmd, w)
  \/ WordPair(cmd, "git", {"log", "show", "blame"})
  \/ WordPair(cmd, "npm", {"info", "search", "view"})
  \/ WordPair(cmd, "pip", {"show", "search"})

\* The keyword stems of EXPLORATION_KEYWORDS / OPERATIONAL_KEYWORDS of which
\* a description word is an extension (/\bstem/i), for the words in use.
StemsOf(w) ==
  CASE w \in {"search", "searching"}  -> {"search"}
    [] w \in {"investigate"}          -> {"investigat"}
    [] w \in {"explore"}              -> {"explor"}
    [] w \in {"inspect"}              -> {"inspect"}
    [] w \in {"debug"}                -> {"debug"}
    [] w \in {"create"}               -> {"creat"}
    [] w \in {"build"}                -> {"build"}
    [] w \in {"install"}              -> {"install"}
    [] w \in {"commit"}               -> {"commit"}
    [] w \in {"tests", "test"}        -> {"test"}
    [] w \in {"copy"}                 -> {"copy"}
    [] w \in {"fix"}                  -> {"fix"}
    [] w \in {"sync"}                 -> {"sync"}
    [] OTHER -> {}

ExplorationStems ==
  {"search", "investigat", "explor", "examin", "inspect", "understand",
   "analyz", "research", "debug", "identif", "determin", "brows", "scan",
   "view"}
OperationalStems ==
  {"creat", "build", "rebuild", "install", "start", "deploy", "push",
   "commit", "compil", "test", "serv", "clean", "delet", "mov", "copy",
   "renam", "configur", "initializ", "generat", "writ", "mak", "updat",
   "fix", "apply", "execut", "launch", "restart", "kill", "format", "lint",
   "propagate", "sync"}

DescPair(desc, w, seconds) ==
  \E i \in 1..Len(desc) : desc[i] = w /\ i < Len(desc) /\ desc[i+1] \in seconds
DescWord(desc, w) == \E i \in 1..Len(desc) : desc[i] = w

\* EXPLORATION_KEYWORDS.filter(p => p.test(desc)) : the patterns that match
EXPLORATION_KEYWORDS(desc) ==
  { s \in ExplorationStems : \E i \in 1..Len(desc) : s \in StemsOf(desc[i]) }
  \cup { p \in {"trace"} : DescWord(desc, "trace") \/ DescWord(desc, "tracing") }
  \cup { p \in {"look"} : DescPair(desc, "look", {"for", "at", "into", "up"}) }
  \cup { p \in {"find"} : DescPair(desc, "find", {"out", "where", "how", "what", "why"}) }
  \cup { p \in {"figure"} : DescPair(desc, "figure", {"out"}) }
  \cup { p \in {"check"} : DescPair(desc, "check", {"if", "whether", "what", "how", "where", "content"}) }
  \cup { p \in {"what"} : DescPair(desc, "what", {"is", "are", "does"}) }
  \cup { p \in {"how"} : DescPair(desc, "how", {"does", "do", "is", "to"}) }
  \cup { p \in {"where"} : DescPair(desc, "where", {"is", "are", "does"}) }
  \cup { p \in {"list"} : DescPair(desc, "list", {"all", "the", "every", "content"}) }
  \cup { p \in {"show"} : DescPair(desc, "show", {"the", "all", "me", "current"}) }
  \cup { p \in {"read"} : DescWord(desc, "read") }

\* OPERATIONAL_KEYWORDS.filter(p => p.test(desc)) : the patterns that match
OPERATIONAL_KEYWORDS(desc) ==
  { s \in OperationalStems : \E i \in 1..Len(desc) : s \in StemsOf(desc[i]) }
  \cup { p \in {"run"} : DescWord(desc, "run") }
  \cup { p \in {"stop"} : DescWord(desc, "stop") }
  \cup { p \in {"setup"} : DescWord(desc, "setup") \/ DescPair(desc, "set", {"up"}) }
  \cup { p \in {"copy..to"} :
           \E i \in 1..Len(desc) : "copy" \in StemsOf(desc[i])
                                   /\ \E j \in (i+1)..Len(desc) : desc[j] = "to" }

\* desc.length : the words plus the single blanks between them
WordLen(w) ==
  CASE w \in {"to", "up", "is", "do", "at", "if"} -> 2
    [] w \in {"for", "the", "fix", "run", "foo", "all"} -> 3
    [] w \in {"test", "copy", "sync", "look"} -> 4
    [] w \in {"debug", "build", "tests", "thing"} -> 5
    [] w \in {"search", "create", "commit"} -> 6
    [] w \in {"explore", "inspect", "install"} -> 7
    [] w \in {"codebase"} -> 8
    [] w \in {"directory", "searching"} -> 9
    [] w \in {"investigate"} -> 11
    [] OTHER -> 6
RECURSIVE DescLength(_)
DescLength(desc) ==
  IF desc = << >> THEN 0
  ELSE WordLen(Head(desc)) + (IF Len(desc) > 1 THEN 1 ELSE 0) + DescLength(Tail(desc))

\* a variant of isExploratoryBash that scores the description before it looks
\* at the safelist
MutIsExploratoryBash_DescriptionFirst(inv) ==
  LET cmd  == inv.command
      desc == inv.description
      explorationScore == Cardinality(EXPLORATION_KEYWORDS(desc))
      operationalScore == Cardinality(OPERATIONAL_KEYWORDS(desc))
  IN  IF DescLength(desc) > 5 /\ explorationScore > operationalScore THEN TRUE
      ELSE IF DescLength(desc) > 5 /\ operationalScore > explorationScore THEN FALSE
      ELSE IF SAFE_OPERATIONAL_PATTERNS(cmd) THEN FALSE
      ELSE EXPLORATION_PATTERNS(cmd)

\* a variant of isExploratoryBash that scores a description of 5 characters
MutIsExploratoryBash_ScoresAtFive(inv) ==
  LET cmd  == inv.command
      desc == inv.description
      explorationScore == Cardinality(EXPLORATION_KEYWORDS(desc))
      operationalScore == Cardinality(OPERATIONAL_KEYWORDS(desc))
  IN  IF SAFE_OPERATIONAL_PATTERNS(cmd) THEN FALSE
      ELSE IF DescLength(desc) >= 5 /\ explorationScore > operationalScore THEN TRUE
      ELSE IF DescLength(desc) >= 5 /\ operationalScore > explorationScore THEN FALSE
      ELSE EXPLORATION_PATTERNS(cmd)

\* isExploratoryBash(input), post-tool-use.js
isExploratoryBash(inv) ==
  LET cmd  == inv.command
      desc == inv.description
      explorationScore == Cardinality(EXPLORATION_KEYWORDS(desc))
      operationalScore == Cardinality(OPERATIONAL_KEYWORDS(desc))
  IN  IF SAFE_OPERATIONAL_PATTERNS(cmd) THEN FALSE
      ELSE IF DescLength(desc) > 5 /\ explorationScore > operationalScore THEN TRUE
      ELSE IF DescLength(desc) > 5 /\ operationalScore > explorationScore THEN FALSE
      ELSE EXPLORATION_PATTERNS(cmd)

\* a variant of isExploratoryTask that takes every subagent for an explorer
MutIsExploratoryTask_Always(inv) == TRUE

\* the description test of isExploratoryBash taken alone: a description of
\* more than 5 characters whose exploration score beats its operational score
ExploratoryDescription(desc) ==
  /\ DescLength(desc) > 5
  /\ Cardinality(EXPLORATION_KEYWORDS(desc)) > Cardinality(OPERATIONAL_KEYWORDS(desc))

\* isExploratoryTask(input), post-tool-use.js
isExploratoryTask(inv) == inv.subagent \in EXPLORATION_SUBAGENTS

\* a variant of isSaveCall that forgets check-memory
MutIsSaveCall_NoCheckMemory(inv) ==
  \/ includes(inv.command, "save-decision")
  \/ includes(inv.command, "save-research")

\* a variant of isSaveCall that forgets the two save scripts
MutIsSaveCall_NoSaveScripts(inv) ==
  includes(inv.command, "check-memory")

\* isSaveCall(input), pre-tool-use.js
isSaveCall(inv) ==
  \/ includes(inv.command, "save-decision")
  \/ includes(inv.command, "save-research")
  \/ includes(inv.command, "check-memory")

\* a variant of isSelfCall that does not know session-summary
MutIsSelfCall_NoSessionSummary(inv) ==
  \/ includes(inv.command, "save-decision")
  \/ includes(inv.command, "save-research")
  \/ includes(inv.command, "check-memory")

\* isSelfCall(input), post-tool-use.js
isSelfCall(inv) ==
  \/ includes(inv.command, "save-decision")
  \/ includes(inv.command, "save-research")
  \/ includes(inv.command, "check-memory")
  \/ includes(inv.command, "session-summary")

\* ------------------------------------------------------------------------
\* State: the files of one project and the clock
\* ------------------------------------------------------------------------
VARIABLES
  now,          \* Date.now(), in TimeUnit
  reminderFile, \* .ai-memory/.last-reminder (the escalation state)
  memCheckFile, \* .ai-memory/.last-memory-check (the consultation sentinel)
  trackerFile,  \* .ai-memory/.task-tracker
  decisions,    \* .ai-memory/decisions.jsonl : mtime and number of records
  research,     \* .ai-memory/research.jsonl  : mtime and number of records
  registry,     \* ~/.ai-memory-sessions : the session ids that have an entry
  homeScan,     \* whether scanHomeForProjects() finds the project
  accounted,    \* history: the save times lastSaveTs was advanced to, this session
  ev,           \* the last hook or script run, its input and its output
  agent,        \* the calling agent: free, or retrying one call until it is allowed
  inflight,     \* per post-check process: what it has read and not yet written
  advised       \* history: the all-tasks-complete advisory was emitted since the
                \* task tracker was last reset

vars == <<now, reminderFile, memCheckFile, trackerFile, decisions, research,
          registry, homeScan, accounted, ev, agent, inflight, advised>>

NoFile == -1

AbsentFile == [kind |-> "absent"]
\* a file whose text is neither JSON nor a number
CorruptFile == [kind |-> "corrupt"]
\* a file that holds nothing but white space
EmptyFile == [kind |-> "empty"]
\* a file that starts with "{" and is not valid JSON (a write cut short)
TruncatedFile == [kind |-> "truncated"]
\* a JSON field that holds a value that is not a number and does not convert
\* to one (a string such as "many"): every comparison with it is false and
\* adding 1 to it gives a value of the same kind
NonNumeric == -1
\* a number that is not finite (Infinity, which JSON.parse gives for 1e999, or
\* NaN): it is not <= any threshold, adding 1 leaves it as it is, and
\* JSON.stringify writes it as null
NonFinite == -2
\* the JSON value null in a file
JsonNull == -3
JsLessEq(a, b) == a \notin {NonNumeric, NonFinite} /\ a <= b
JsPlusOne(a) == IF a \in {NonNumeric, NonFinite} THEN a ELSE a + 1
\* JSON.stringify of one field value
JSONstringify(v) == IF v = NonFinite THEN JsonNull ELSE v
\* parsed.field || 0
OrZero(v) == IF v = JsonNull THEN 0 ELSE v
LegacyFile(v) == [kind |-> "legacy", ts |-> v]
StateJson(st) ==
  [kind |-> "json", ts |-> st.ts, reminderCount |-> st.reminderCount,
   lastSaveTs |-> st.lastSaveTs]
TrackerJson(tr) ==
  [kind |-> "json", created |-> tr.created, completed |-> tr.completed,
   toolCallsSinceSummary |-> tr.toolCallsSinceSummary]

defaultState == [ts |-> 0, reminderCount |-> 0, lastSaveTs |-> 0]

\* a variant of writeState that writes the old format, the bare timestamp
MutWriteState_TsOnly(state) == LegacyFile(state.ts)

\* writeState(projectRoot, state): the file holds JSON.stringify(state)
writeState(state) ==
  StateJson([ts |-> JSONstringify(state.ts),
             reminderCount |-> JSONstringify(state.reminderCount),
             lastSaveTs |-> JSONstringify(state.lastSaveTs)])
defaults == [created |-> 0, completed |-> 0, toolCallsSinceSummary |-> 0]

\* ------------------------------------------------------------------------
\* Invocations (the JSON object a hook reads from standard input)
\* ------------------------------------------------------------------------
NoCmd == << >>
Inv(tool, cmd, desc, sub, status, cwd, sess) ==
  [command |-> cmd, description |-> desc, subagent |-> sub, tool |-> tool,
   status |-> status, cwd |-> cwd, session |-> sess]

SaveDecisionCmd == <<"node", "scripts/save-decision.js">>
SaveResearchCmd == <<"node", "scripts/save-research.js">>
CheckMemoryCmd == <<"node", "scripts/check-memory.js">>
SessionSummaryCmd == <<"node", "scripts/session-summary.js">>
GrepCmd == <<"grep", "-r", "foo">>
MkdirCmd == <<"mkdir", "build">>
SearchDesc == <<"search", "the", "codebase">>
CreateDesc == <<"create", "build", "directory">>

Cwds == {"project", "outside"}
Sessions == {"s1", ""}
\* the working directory and session id a hook is started with: inside the
\* project, or in an unrelated directory (the host quirk)
Origins == { <<"project", "">>, <<"outside", "">> }

BashCalls ==
  { <<SaveDecisionCmd, << >> >>, <<SaveResearchCmd, << >> >>,
    <<CheckMemoryCmd, << >> >>, <<SessionSummaryCmd, << >> >>,
    <<GrepCmd, SearchDesc>>, <<MkdirCmd, CreateDesc>> }

\* the calls of the gated tools and of one tool that is not gated, started
\* inside the project
ProjectCalls ==
  { Inv("Bash", c[1], c[2], "", "", "project", "") : c \in BashCalls }
  \cup { Inv(t, NoCmd, << >>, "", "", "project", "") :
           t \in {"WebFetch", "WebSearch", "Read"} }
  \cup { Inv("Task", NoCmd, << >>, sub, "", "project", "") :
           sub \in {"Explore", "code-simplifier"} }

\* calls started in a directory that has no .ai-memory at or above it
OutsideCalls ==
  { Inv("Bash", GrepCmd, SearchDesc, "", "", "outside", ""),
    Inv("WebFetch", NoCmd, << >>, "", "", "outside", "") }

Invocations == ProjectCalls \cup OutsideCalls

\* the task-lifecycle calls
TaskInvocations ==
  { Inv("TaskCreate", NoCmd, << >>, "", "", o[1], o[2]) : o \in Origins }
  \cup { Inv("TaskUpdate", NoCmd, << >>, "", st, o[1], o[2]) :
      st \in {"completed", "deleted", "in_progress"}, o \in Origins }

\* ------------------------------------------------------------------------
\* Reading the files
\* ------------------------------------------------------------------------
\* findProjectRoot(startDir): walks up from startDir to a directory holding .ai-memory
findProjectRoot(cwd) == cwd = "project"

\* the session-registry fallback of resolveProjectRoot
RegistryLookup(sess) == sess # "" /\ sess \in registry

\* a variant of resolveProjectRoot that takes any session id for a registered one
MutPreResolveProjectRoot_AnySession(inv) ==
  findProjectRoot(inv.cwd) \/ inv.session # ""

\* resolveProjectRoot(cwd, sessionId) of pre-tool-use.js: TRUE when a root is found
PreResolveProjectRoot(inv) ==
  findProjectRoot(inv.cwd) \/ RegistryLookup(inv.session)

\* scanHomeForProjects()
scanHomeForProjects == homeScan

\* resolveProjectRoot(cwd, sessionId) of post-tool-use.js
PostResolveProjectRoot(inv) ==
  findProjectRoot(inv.cwd) \/ RegistryLookup(inv.session) \/ scanHomeForProjects

\* a variant of readState of pre-tool-use.js that does not know the old format
MutPreReadState_NoLegacy(file) ==
  IF file.kind = "json"
  THEN [ts |-> OrZero(file.ts), reminderCount |-> OrZero(file.reminderCount),
        lastSaveTs |-> OrZero(file.lastSaveTs)]
  ELSE defaultState

\* readState(projectRoot) of pre-tool-use.js
PreReadState(file) ==
  CASE file.kind = "json" ->
         [ts |-> OrZero(file.ts), reminderCount |-> OrZero(file.reminderCount),
          lastSaveTs |-> OrZero(file.lastSaveTs)]
    [] file.kind = "legacy" -> [ts |-> file.ts, reminderCount |-> 0, lastSaveTs |-> 0]
    [] file.kind = "empty" -> defaultState
    [] file.kind = "truncated" -> defaultState
    [] file.kind = "corrupt" -> defaultState
    [] OTHER -> defaultState

\* readState(projectRoot) of post-tool-use.js: decodes .last-reminder
readState(file) ==
  CASE file.kind = "json" ->
         [ts |-> OrZero(file.ts), reminderCount |-> OrZero(file.reminderCount),
          lastSaveTs |-> OrZero(file.lastSaveTs)]
    [] file.kind = "legacy" -> [ts |-> file.ts, reminderCount |-> 0, lastSaveTs |-> 0]
    [] file.kind = "empty" -> defaultState       \* if (!raw) return defaultState
    [] file.kind = "truncated" -> defaultState   \* JSON.parse throws
    [] file.kind = "corrupt" -> defaultState     \* isNaN(Number(raw))
    [] OTHER -> defaultState                     \* readFileSync throws

\* readTaskTracker(projectRoot): decodes .task-tracker
readTaskTracker(file) ==
  IF file.kind = "json"
  THEN [created |-> file.created, completed |-> file.completed,
        toolCallsSinceSummary |-> file.toolCallsSinceSummary]
  ELSE defaults

\* getLastSaveTs(projectRoot): the newest mtime of the two logs, 0 if none exists
getLastSaveTs(dec, res) ==
  LET m1 == IF dec.mtime > 0 THEN dec.mtime ELSE 0
  IN  IF res.mtime > m1 THEN res.mtime ELSE m1

\* a variant of hasResearch that only asks whether the file exists
MutHasResearch_AnyFile(res) == res.mtime > 0

\* hasResearch(projectRoot): research.jsonl is larger than 50 bytes
hasResearch(res) == res.mtime > 0 /\ res.records * RecordBytes > RESEARCH_MIN_SIZE

\* a variant of wasMemoryChecked with <= for <
MutWasMemoryChecked_Le(file, t) == file # NoFile /\ t - file <= MEMORY_CHECK_TTL_MS

\* wasMemoryChecked(projectRoot): Date.now() - ts < MEMORY_CHECK_TTL_MS
wasMemoryChecked(file, t) == file # NoFile /\ t - file < MEMORY_CHECK_TTL_MS

\* a variant of the save test of post-tool-use.js with >= for >
MutPostSaveDetected_Ge(state, currentSaveTs) ==
  currentSaveTs >= state.lastSaveTs /\ state.lastSaveTs > 0

\* the save test of post-tool-use.js: currentSaveTs > state.lastSaveTs && state.lastSaveTs > 0
PostSaveDetected(state, currentSaveTs) ==
  currentSaveTs > state.lastSaveTs /\ state.lastSaveTs > 0

\* a variant of the save test of pre-tool-use.js with >= for >
MutPreSaveDetected_Ge(state, currentSaveTs) == currentSaveTs >= state.lastSaveTs

\* the save test of pre-tool-use.js: currentSaveTs > state.lastSaveTs
PreSaveDetected(state, currentSaveTs) == currentSaveTs > state.lastSaveTs

Max(a, b) == IF a > b THEN a ELSE b

\* ------------------------------------------------------------------------
\* PreToolUse hook (pre-tool-use.js main): read-only, returns a verdict
\* ------------------------------------------------------------------------
\* a variant of the escalation test with >= for >
MutEscalated_Ge(state) == state.reminderCount >= ESCALATION_THRESHOLD

\* "Not escalated yet" test of GATE 3, negated: state.reminderCount > ESCALATION_THRESHOLD
Escalated(state) == ~JsLessEq(state.reminderCount, ESCALATION_THRESHOLD)

\* GATE 1: Task with an exploration subagent, research present, memory not checked
Gate1Denies(inv) ==
  /\ inv.tool = "Task"
  /\ inv.subagent \in EXPLORATION_SUBAGENTS
  /\ hasResearch(research)
  /\ ~wasMemoryChecked(memCheckFile, now)

\* GATE 2: WebSearch / WebFetch, research present, memory not checked
Gate2Denies(inv) ==
  /\ inv.tool \in {"WebSearch", "WebFetch"}
  /\ hasResearch(research)
  /\ ~wasMemoryChecked(memCheckFile, now)

\* GATE 3: escalated and no save since
Gate3Denies ==
  LET state == PreReadState(reminderFile)
      currentSaveTs == getLastSaveTs(decisions, research)
  IN  Escalated(state) /\ ~PreSaveDetected(state, currentSaveTs)

\* a variant of the pre-check that looks at the escalation gate first
MutPreVerdict_EscalationFirst(inv) ==
  IF inv.tool \notin MATCHED_TOOLS THEN "allow"
  ELSE IF inv.tool = "Bash" /\ isSaveCall(inv) THEN "allow"
  ELSE IF ~PreResolveProjectRoot(inv) THEN "allow"
  ELSE IF Gate3Denies THEN "deny_escalation"
  ELSE IF Gate1Denies(inv) THEN "deny_memory"
  ELSE IF Gate2Denies(inv) THEN "deny_memory"
  ELSE "allow"

PreVerdict(inv) ==
  IF inv.tool \notin MATCHED_TOOLS THEN "allow"
  ELSE IF inv.tool = "Bash" /\ isSaveCall(inv) THEN "allow"
  ELSE IF ~PreResolveProjectRoot(inv) THEN "allow"
  ELSE IF Gate1Denies(inv) THEN "deny_memory"
  ELSE IF Gate2Denies(inv) THEN "deny_memory"
  ELSE IF Gate3Denies THEN "deny_escalation"
  ELSE "allow"

\* was: the reminderCount the run read before it wrote the state, 0 for a run
\* that writes no state
\* payload: what JSON.parse made of standard input ("object" for a run whose
\* input is the invocation inv)
Event(hook, inv, out, reset, was) ==
  [inv |-> inv, hook |-> hook, out |-> out, reset |-> reset, was |-> was,
   cleared |-> FALSE, payload |-> "object"]
NoInv == Inv("", NoCmd, << >>, "", "", "", "")

\* a variant of the pre-check that withdraws the consultation when it denies
MutPreToolUse_DenialClearsSentinel(inv) ==
  /\ ev' = Event("pre", inv, PreVerdict(inv), FALSE, 0)
  /\ memCheckFile' = IF PreVerdict(inv) = "allow" THEN memCheckFile ELSE NoFile
  /\ UNCHANGED <<now, reminderFile, trackerFile, decisions,
                 research, registry, homeScan, accounted, agent, inflight, advised>>

PreToolUse(inv) ==
  /\ ev' = Event("pre", inv, PreVerdict(inv), FALSE, 0)
  /\ UNCHANGED <<now, reminderFile, memCheckFile, trackerFile, decisions,
                 research, registry, homeScan, accounted, agent, inflight, advised>>

\* ------------------------------------------------------------------------
\* PostToolUse hook (post-tool-use.js main)
\* ------------------------------------------------------------------------
\* a variant of the task tracking whose deleted update does not stop at 0
MutTaskTrack_NoFloor(inv, tracker) ==
  IF inv.tool = "TaskCreate"
  THEN [tracker EXCEPT !.created = @ + 1]
  ELSE IF inv.status = "completed"
  THEN [tracker EXCEPT !.completed = @ + 1]
  ELSE IF inv.status = "deleted"
  THEN [tracker EXCEPT !.created = @ - 1]
  ELSE tracker

\* task completion tracking: the tracker written for a TaskCreate / TaskUpdate
TaskTrack(inv, tracker) ==
  IF inv.tool = "TaskCreate"
  THEN [tracker EXCEPT !.created = @ + 1]
  ELSE IF inv.status = "completed"
  THEN [tracker EXCEPT !.completed = @ + 1]
  ELSE IF inv.status = "deleted"
  THEN [tracker EXCEPT !.created = Max(0, @ - 1)]
  ELSE tracker

\* a variant of the completion test with = for >=
MutAllTasksComplete_Eq(tracker) ==
  tracker.completed = tracker.created /\ tracker.created > 0

\* "Check if ALL tasks are now complete"
AllTasksComplete(tracker) ==
  tracker.completed >= tracker.created /\ tracker.created > 0

\* a variant of the periodic checkpoint test with > for >=
MutCheckpointReached_Gt(tracker) ==
  tracker.toolCallsSinceSummary > SUMMARY_CHECKPOINT_CALLS

\* a variant of the periodic checkpoint test that fires at the crossing only
MutCheckpointReached_AtCrossing(tracker) ==
  tracker.toolCallsSinceSummary = SUMMARY_CHECKPOINT_CALLS

\* the periodic checkpoint test
CheckpointReached(tracker) ==
  tracker.toolCallsSinceSummary >= SUMMARY_CHECKPOINT_CALLS

\* the early exits for operational Bash and operational Task
OperationalSkip(inv) ==
  \/ inv.tool = "Bash" /\ ~isExploratoryBash(inv)
  \/ inv.tool = "Task" /\ ~isExploratoryTask(inv)

\* a variant of the sentinel clearing that leaves the sentinel in place
MutClearMemoryCheck_Keeps(file) == file

\* "Clear memory-check gate": fs.unlinkSync of .last-memory-check
clearMemoryCheck(file) == NoFile

\* a variant of the IMMEDIATE_SAVE_TOOLS branch that stops at the threshold
MutImmediateSave_AtThreshold(state, t, currentSaveTs) ==
  [ts |-> t,
   reminderCount |-> ESCALATION_THRESHOLD,
   lastSaveTs |-> Max(state.lastSaveTs, currentSaveTs)]

\* the state written by the IMMEDIATE_SAVE_TOOLS branch
ImmediateSave(state, t, currentSaveTs) ==
  [ts |-> t,
   reminderCount |-> ESCALATION_THRESHOLD + 1,
   lastSaveTs |-> Max(state.lastSaveTs, currentSaveTs)]

\* a variant of the gradual branch that has no throttle
MutThrottled_Never(state, t) == FALSE

\* the throttle test of the gradual branch
Throttled(state, t) == t - state.ts < THROTTLE_MS

\* a variant of the gradual-escalation branch that restarts the count on every run
MutGradualEscalation_AlwaysReset(state, t, currentSaveTs) ==
  [ts |-> t,
   reminderCount |-> 1,
   lastSaveTs |-> Max(state.lastSaveTs, currentSaveTs)]

\* a variant of the gradual-escalation branch that forgets to advance lastSaveTs
MutGradualEscalation_KeepsSaveTs(state, t, currentSaveTs) ==
  [ts |-> t,
   reminderCount |->
     (IF PostSaveDetected(state, currentSaveTs) THEN 0 ELSE state.reminderCount) + 1,
   lastSaveTs |-> state.lastSaveTs]

\* the state written by the gradual-escalation branch
GradualEscalation(state, t, currentSaveTs) ==
  [ts |-> t,
   reminderCount |->
     JsPlusOne(IF PostSaveDetected(state, currentSaveTs) THEN 0 ELSE state.reminderCount),
   lastSaveTs |-> Max(state.lastSaveTs, currentSaveTs)]

\* a variant of the gradual branch that blocks from the first reminder on
MutGradualMessage_AlwaysBlocks(state) == "block_escalated"

\* the message of the gradual branch
GradualMessage(state) ==
  IF JsLessEq(state.reminderCount, ESCALATION_THRESHOLD) THEN "systemMessage"
  ELSE "block_escalated"

\* the part of main that handles TaskCreate / TaskUpdate
PostTaskTool(inv) ==
  /\ inv.tool \in TASK_TOOLS
  /\ LET tracker == readTaskTracker(trackerFile)
         written == TaskTrack(inv, tracker)
     IN  IF PostResolveProjectRoot(inv)
         THEN /\ written.created <= MaxTasks
              /\ written.completed <= MaxTasks + 1
              /\ trackerFile' = (IF inv.tool = "TaskCreate"
                                    \/ inv.status \in {"completed", "deleted"}
                                 THEN TrackerJson(written) ELSE trackerFile)
              /\ ev' = Event("post", inv,
                             IF inv.tool = "TaskUpdate" /\ inv.status = "completed"
                                /\ AllTasksComplete(written)
                             THEN "block_tasks" ELSE "none", FALSE, 0)
              /\ advised' = (advised \/ (inv.tool = "TaskUpdate"
                                          /\ inv.status = "completed"
                                          /\ AllTasksComplete(written)))
         ELSE /\ trackerFile' = trackerFile
              /\ ev' = Event("post", inv, "none", FALSE, 0)
              /\ advised' = advised
  /\ UNCHANGED <<now, reminderFile, memCheckFile, decisions, research,
                 registry, homeScan, accounted, agent, inflight>>

\* the exits before any file is touched: tool not matched, no root, self-call
PostNoOp(inv) ==
  /\ inv.tool \notin TASK_TOOLS
  /\ \/ inv.tool \notin MATCHED_TOOLS
     \/ ~PostResolveProjectRoot(inv)
     \/ inv.tool = "Bash" /\ isSelfCall(inv)
  /\ ev' = Event("post", inv, "none", FALSE, 0)
  /\ UNCHANGED <<now, reminderFile, memCheckFile, trackerFile, decisions,
                 research, registry, homeScan, accounted, agent, inflight, advised>>

\* a matched, resolved, non-self call: checkpoint counter, then the escalation tracker
PostGated(inv) ==
  /\ inv.tool \in MATCHED_TOOLS
  /\ PostResolveProjectRoot(inv)
  /\ ~(inv.tool = "Bash" /\ isSelfCall(inv))
  /\ LET tracker == [readTaskTracker(trackerFile) EXCEPT !.toolCallsSinceSummary = @ + 1]
         state == readState(reminderFile)
         currentSaveTs == getLastSaveTs(decisions, research)
         reset == PostSaveDetected(state, currentSaveTs)
     IN  /\ \/ tracker.toolCallsSinceSummary <= MaxCalls
            \/ /\ tracker.toolCallsSinceSummary >= SUMMARY_CHECKPOINT_CALLS - MaxCalls
               /\ tracker.toolCallsSinceSummary <= SUMMARY_CHECKPOINT_CALLS + MaxCalls
         /\ trackerFile' = TrackerJson(tracker)
         /\ IF CheckpointReached(tracker)
            THEN /\ ev' = Event("post", inv, "block_checkpoint", FALSE, 0)
                 /\ UNCHANGED <<reminderFile, memCheckFile, accounted>>
            ELSE IF OperationalSkip(inv)
            THEN /\ ev' = Event("post", inv, "none", FALSE, 0)
                 /\ UNCHANGED <<reminderFile, memCheckFile, accounted>>
            ELSE IF inv.tool \in IMMEDIATE_SAVE_TOOLS
            THEN LET written == ImmediateSave(state, now, currentSaveTs)
                 IN  /\ reminderFile' = writeState(written)
                     /\ memCheckFile' = clearMemoryCheck(memCheckFile)
                     /\ accounted' = IF written.lastSaveTs > state.lastSaveTs
                                     THEN accounted \cup {written.lastSaveTs}
                                     ELSE accounted
                     /\ ev' = [Event("post", inv, "block_save", reset, state.reminderCount)
                                 EXCEPT !.cleared = wasMemoryChecked(memCheckFile, now)]
            ELSE IF Throttled(state, now)
            THEN /\ ev' = Event("post", inv, "none", FALSE, 0)
                 /\ UNCHANGED <<reminderFile, memCheckFile, accounted>>
            ELSE LET written == GradualEscalation(state, now, currentSaveTs)
                 IN  /\ reminderFile' = writeState(written)
                     /\ memCheckFile' = memCheckFile
                     /\ accounted' = IF written.lastSaveTs > state.lastSaveTs
                                     THEN accounted \cup {written.lastSaveTs}
                                     ELSE accounted
                     /\ ev' = Event("post", inv, GradualMessage(written), reset,
                                    state.reminderCount)
  /\ UNCHANGED <<now, decisions, research, registry, homeScan, agent, inflight, advised>>

PostToolUse(inv) == PostTaskTool(inv) \/ PostNoOp(inv) \/ PostGated(inv)

\* ------------------------------------------------------------------------
\* SessionStart hook (session-start.js main)
\* ------------------------------------------------------------------------
\* a variant of unlinkSync that leaves the file in place
MutUnlinkSync_Keeps(file) == file

\* fs.unlinkSync(reminderPath): the file is gone, whatever it held
unlinkSync(file) == AbsentFile

SessionStart(cwd, sess) ==
  /\ IF findProjectRoot(cwd) \/ scanHomeForProjects
     THEN /\ registry' = IF sess # "" THEN registry \cup {sess} ELSE registry
          /\ memCheckFile' = NoFile
          /\ reminderFile' = unlinkSync(reminderFile)
          /\ trackerFile' = TrackerJson(defaults)
          /\ accounted' = {}
          /\ advised' = FALSE
     ELSE UNCHANGED <<registry, memCheckFile, reminderFile, trackerFile, accounted,
                      advised>>
  /\ ev' = Event("start", Inv("", NoCmd, << >>, "", "", cwd, sess), "none", FALSE,
                 readState(reminderFile).reminderCount)
  /\ UNCHANGED <<now, decisions, research, homeScan, agent, inflight>>

\* ------------------------------------------------------------------------
\* The helper scripts, run in the project directory
\* ------------------------------------------------------------------------
\* fs.appendFileSync(.., JSON.stringify(entry) + "\n"): one more record, mtime = time of the write
appendRecord(file, t) == [mtime |-> t, records |-> file.records + 1]

\* Two writes to the logs never carry the same mtime: a save runs at a later
\* time than the newest mtime in the store.
\* save-decision.js
RunSaveDecision(t) ==
  /\ t > getLastSaveTs(decisions, research)
  /\ decisions.records < MaxRecords
  /\ decisions' = appendRecord(decisions, t)
  /\ ev' = Event("save-decision", NoInv, "none", FALSE, 0)
  /\ UNCHANGED <<reminderFile, memCheckFile, trackerFile, research, registry,
                 homeScan, accounted, inflight, advised>>

SaveDecision == RunSaveDecision(now) /\ UNCHANGED <<now, agent>>

\* save-research.js
RunSaveResearch(t) ==
  /\ t > getLastSaveTs(decisions, research)
  /\ research.records < MaxRecords
  /\ research' = appendRecord(research, t)
  /\ ev' = Event("save-research", NoInv, "none", FALSE, 0)
  /\ UNCHANGED <<reminderFile, memCheckFile, trackerFile, decisions, registry,
                 homeScan, accounted, inflight, advised>>

SaveResearch == RunSaveResearch(now) /\ UNCHANGED <<now, agent>>

\* check-memory.js: records that memory was checked
\* a variant of check-memory.js that also rewrites research.jsonl
MutRunCheckMemory_TouchesLog ==
  /\ memCheckFile' = now
  /\ research' = [research EXCEPT !.mtime = now]
  /\ ev' = Event("check-memory", NoInv, "none", FALSE, 0)
  /\ UNCHANGED <<now, reminderFile, trackerFile, decisions, registry,
                 homeScan, accounted, inflight, advised>>

RunCheckMemory ==
  /\ memCheckFile' = now
  /\ ev' = Event("check-memory", NoInv, "none", FALSE, 0)
  /\ UNCHANGED <<now, reminderFile, trackerFile, decisions, research, registry,
                 homeScan, accounted, inflight, advised>>

CheckMemory == RunCheckMemory /\ UNCHANGED agent

\* session-summary.js: resets the task tracker
SessionSummary ==
  /\ trackerFile' = TrackerJson(defaults)
  /\ advised' = FALSE
  /\ ev' = Event("session-summary", NoInv, "none", FALSE, 0)
  /\ UNCHANGED <<now, reminderFile, memCheckFile, decisions, research, registry,
                 homeScan, accounted, agent, inflight>>

\* the wall clock advances between two processes
Tick ==
  /\ now < MaxTime
  /\ now' = now + 1
  /\ ev' = Event("tick", NoInv, "none", FALSE, 0)
  /\ UNCHANGED <<reminderFile, memCheckFile, trackerFile, decisions, research,
                 registry, homeScan, accounted, agent, inflight, advised>>

\* ------------------------------------------------------------------------
\* The calling agent
\* ------------------------------------------------------------------------
\* The agent is free, or it follows the unblocking protocol for one call
\* (target): it asks the pre-check; on the consult-memory denial it runs
\* check-memory, on the escalation denial it runs a save script, and then it
\* asks again, without letting the consultation expire in between.
Free == [mode |-> "free", target |-> NoInv, consulted |-> FALSE, saved |-> FALSE]

CheckMemoryCall == Inv("Bash", CheckMemoryCmd, << >>, "", "", "project", "")
SaveDecisionCall == Inv("Bash", SaveDecisionCmd, << >>, "", "", "project", "")
SaveResearchCall == Inv("Bash", SaveResearchCmd, << >>, "", "", "project", "")

\* the agent picks a gated call and starts asking for it; the bounds must
\* leave room for one save at a later clock value
AgentBegin(inv) ==
  /\ agent = Free
  /\ inv.tool \in MATCHED_TOOLS
  /\ now < MaxTime
  /\ decisions.records < MaxRecords \/ research.records < MaxRecords
  /\ agent' = [mode |-> "try", target |-> inv, consulted |-> FALSE, saved |-> FALSE]
  /\ UNCHANGED <<now, reminderFile, memCheckFile, trackerFile, decisions,
                 research, registry, homeScan, accounted, ev, inflight, advised>>

\* the pre-check of the target call
AgentTry ==
  /\ agent.mode = "try"
  /\ LET verdict == PreVerdict(agent.target)
     IN  /\ ev' = Event("pre", agent.target, verdict, FALSE, 0)
         /\ agent' = [agent EXCEPT !.mode =
                         IF verdict = "allow" THEN "done"
                         ELSE IF verdict = "deny_memory" THEN "consult"
                         ELSE "save"]
  /\ UNCHANGED <<now, reminderFile, memCheckFile, trackerFile, decisions,
                 research, registry, homeScan, accounted, inflight, advised>>

\* the answer to the consult-memory denial: a Shell call of check-memory.js,
\* which runs if its own pre-check allows it; its post-check is a no-op
AgentConsult ==
  /\ agent.mode = "consult"
  /\ PreVerdict(CheckMemoryCall) = "allow"
  /\ isSelfCall(CheckMemoryCall)
  /\ RunCheckMemory
  /\ agent' = [agent EXCEPT !.mode = "try", !.consulted = TRUE]

\* the answer to the escalation denial: a Shell call of save-decision.js or
\* save-research.js, which runs if its own pre-check allows it
AgentSave ==
  /\ agent.mode = "save"
  /\ LET t == IF now > getLastSaveTs(decisions, research) THEN now ELSE now + 1
     IN  /\ now' = t
         /\ \/ /\ PreVerdict(SaveDecisionCall) = "allow"
               /\ isSelfCall(SaveDecisionCall)
               /\ RunSaveDecision(t)
            \/ /\ PreVerdict(SaveResearchCall) = "allow"
               /\ isSelfCall(SaveResearchCall)
               /\ RunSaveResearch(t)
  /\ agent' = [agent EXCEPT !.mode = "try", !.saved = TRUE]

\* the call was allowed: the agent goes on
AgentDone ==
  /\ agent.mode = "done"
  /\ agent' = Free
  /\ UNCHANGED <<now, reminderFile, memCheckFile, trackerFile, decisions,
                 research, registry, homeScan, accounted, ev, inflight, advised>>

\* ------------------------------------------------------------------------
\* Concurrent post-checks.  Two tool calls of one session finish at about the
\* same time and the host starts one post-tool-use.js process for each.  A
\* process reads .last-reminder once (readState) and overwrites it once
\* (writeState); nothing locks the file in between.
\* ------------------------------------------------------------------------
Procs == {"p1", "p2"}
Idle == [pc |-> "idle"]

\* the calls whose post-check reaches the escalation tracker
RaceCalls ==
  { Inv("Bash", GrepCmd, SearchDesc, "", "", "project", ""),
    Inv("WebFetch", NoCmd, << >>, "", "", "project", "") }

\* main up to and including readState / getLastSaveTs: the exits that write
\* no state end the run here, otherwise the process holds what it has read
PostRead(p, inv) ==
  /\ inflight[p] = Idle
  /\ inv.tool \in MATCHED_TOOLS
  /\ PostResolveProjectRoot(inv)
  /\ ~(inv.tool = "Bash" /\ isSelfCall(inv))
  /\ LET tracker == [readTaskTracker(trackerFile) EXCEPT !.toolCallsSinceSummary = @ + 1]
         state == readState(reminderFile)
         currentSaveTs == getLastSaveTs(decisions, research)
     IN  /\ \/ tracker.toolCallsSinceSummary <= MaxCalls
            \/ /\ tracker.toolCallsSinceSummary >= SUMMARY_CHECKPOINT_CALLS - MaxCalls
               /\ tracker.toolCallsSinceSummary <= SUMMARY_CHECKPOINT_CALLS + MaxCalls
         /\ trackerFile' = TrackerJson(tracker)
         /\ IF CheckpointReached(tracker)
            THEN /\ ev' = Event("post", inv, "block_checkpoint", FALSE, 0)
                 /\ UNCHANGED inflight
            ELSE IF OperationalSkip(inv)
                    \/ (inv.tool \notin IMMEDIATE_SAVE_TOOLS /\ Throttled(state, now))
            THEN /\ ev' = Event("post", inv, "none", FALSE, 0)
                 /\ UNCHANGED inflight
            ELSE /\ inflight' = [inflight EXCEPT ![p] =
                                   [inv |-> inv, state |-> state,
                                    currentSaveTs |-> currentSaveTs, pc |-> "read"]]
                 /\ ev' = Event("read", inv, "none", FALSE, 0)
  /\ UNCHANGED <<now, reminderFile, memCheckFile, decisions, research, registry,
                 homeScan, accounted, agent, advised>>

\* the rest of main: writeState with the state computed from what was read
PostWrite(p) ==
  /\ inflight[p] # Idle
  /\ LET inv == inflight[p].inv
         state == inflight[p].state
         currentSaveTs == inflight[p].currentSaveTs
         reset == PostSaveDetected(state, currentSaveTs)
         written == IF inv.tool \in IMMEDIATE_SAVE_TOOLS
                    THEN ImmediateSave(state, now, currentSaveTs)
                    ELSE GradualEscalation(state, now, currentSaveTs)
     IN  /\ reminderFile' = writeState(written)
         /\ memCheckFile' = IF inv.tool \in IMMEDIATE_SAVE_TOOLS
                             THEN clearMemoryCheck(memCheckFile)
                             ELSE memCheckFile
         /\ accounted' = IF written.lastSaveTs > state.lastSaveTs
                         THEN accounted \cup {written.lastSaveTs}
                         ELSE accounted
         /\ ev' = Event("post", inv,
                        IF inv.tool \in IMMEDIATE_SAVE_TOOLS THEN "block_save"
                        ELSE GradualMessage(written),
                        reset, state.reminderCount)
  /\ inflight' = [inflight EXCEPT ![p] = Idle]
  /\ UNCHANGED <<now, trackerFile, decisions, research, registry, homeScan, agent, advised>>

\* ------------------------------------------------------------------------
\* Standard input.  main reads all of standard input and hands it to
\* JSON.parse inside a try block; nothing after that is inside a try block
\* except the file reads of the helper functions.  An exception that escapes
\* main ends the process with a non-zero exit status and nothing on standard
\* output: the outcome "crash".
\* ------------------------------------------------------------------------
\* json: "absent" (empty input), "invalid" (not JSON), "null", "scalar"
\* (a number, a string, a boolean or an array) or "object"; commandType and
\* cwdType: the type of tool_input.command and of cwd in an object, "missing"
\* if the field is not there (cwd then is process.cwd(), held in inv.cwd)
Payload(json, inv, commandType, cwdType) ==
  [inv |-> inv, json |-> json, commandType |-> commandType, cwdType |-> cwdType]

Payloads ==
  { Payload(j, NoInv, "missing", "missing") :
      j \in {"absent", "invalid", "null", "scalar"} }
  \cup { Payload("object", Inv("Bash", GrepCmd, SearchDesc, "", "", "project", ""),
                 "string", ct) : ct \in {"string", "missing", "number"} }
  \cup { Payload("object", Inv("Bash", NoCmd, << >>, "", "", c, ""), ty, "string") :
           c \in Cwds, ty \in {"missing", "number"} }
  \cup { Payload("object", Inv(t, NoCmd, << >>, "", "", "project", ""), "missing", ct) :
           t \in {"WebFetch", "Read", "TaskCreate", ""}, ct \in {"string", "number"} }

\* let input = {}; try { input = JSON.parse(raw) } catch {}: the invocation main works on
ParsedInput(p) == IF p.json = "object" THEN p.inv ELSE NoInv

\* pre-tool-use.js main: TRUE when an exception escapes
PreCrashes(p) ==
  IF p.json = "null" THEN TRUE                    \* input.tool_name of null
  ELSE IF p.json # "object" THEN FALSE
  ELSE IF p.inv.tool \notin MATCHED_TOOLS THEN FALSE
  ELSE IF p.inv.tool = "Bash" /\ p.commandType = "number" THEN TRUE  \* cmd.includes
  ELSE IF p.inv.tool = "Bash" /\ isSaveCall(p.inv) THEN FALSE
  ELSE p.cwdType = "number"                       \* path.join(dir, ".ai-memory")

\* post-tool-use.js main: TRUE when an exception escapes
PostCrashes(p) ==
  IF p.json = "null" THEN TRUE                    \* input.tool_name of null
  ELSE IF p.json # "object" THEN FALSE
  ELSE IF p.inv.tool \in TASK_TOOLS THEN p.cwdType = "number"
  ELSE IF p.inv.tool \notin MATCHED_TOOLS THEN FALSE
  ELSE IF p.cwdType = "number" THEN TRUE          \* path.join(dir, ".ai-memory")
  ELSE IF ~PostResolveProjectRoot(p.inv) THEN FALSE
  ELSE p.inv.tool = "Bash" /\ p.commandType = "number"   \* cmd.includes

\* one run of pre-tool-use.js on the standard input p
PrePayload(p) ==
  IF PreCrashes(p)
  THEN /\ ev' = [Event("pre", ParsedInput(p), "crash", FALSE, 0) EXCEPT !.payload = p.json]
       /\ UNCHANGED <<now, reminderFile, memCheckFile, trackerFile, decisions,
                      research, registry, homeScan, accounted, agent, inflight, advised>>
  ELSE IF p.json # "object"
  THEN /\ ev' = [Event("pre", ParsedInput(p), PreVerdict(ParsedInput(p)), FALSE, 0)
                   EXCEPT !.payload = p.json]
       /\ UNCHANGED <<now, reminderFile, memCheckFile, trackerFile, decisions,
                      research, registry, homeScan, accounted, agent, inflight, advised>>
  ELSE PreToolUse(p.inv)

\* one run of post-tool-use.js on the standard input p
PostPayload(p) ==
  IF PostCrashes(p)
  THEN /\ ev' = [Event("post", ParsedInput(p), "crash", FALSE, 0) EXCEPT !.payload = p.json]
       /\ UNCHANGED <<now, reminderFile, memCheckFile, trackerFile, decisions,
                      research, registry, homeScan, accounted, agent, inflight, advised>>
  ELSE IF p.json # "object"
  THEN /\ ev' = [Event("post", ParsedInput(p), "none", FALSE, 0) EXCEPT !.payload = p.json]
       /\ UNCHANGED <<now, reminderFile, memCheckFile, trackerFile, decisions,
                      research, registry, homeScan, accounted, agent, inflight, advised>>
  ELSE PostToolUse(p.inv)

\* ------------------------------------------------------------------------
\* Specification
\* ------------------------------------------------------------------------
NoLog == [mtime |-> 0, records |-> 0]
EmptyLog(t) == [mtime |-> t, records |-> 0]

Init ==
  /\ now = 1
  /\ reminderFile \in {AbsentFile, LegacyFile(1)}
  /\ memCheckFile = NoFile
  /\ trackerFile \in
       {AbsentFile,
        TrackerJson([defaults EXCEPT !.toolCallsSinceSummary =
                                       SUMMARY_CHECKPOINT_CALLS - 1 - MaxCalls])}
  /\ \/ decisions = NoLog /\ research = NoLog
     \/ decisions = EmptyLog(1) /\ research = EmptyLog(1)
  /\ registry = {}
  /\ homeScan = FALSE
  /\ accounted = {}
  /\ ev = Event("init", NoInv, "none", FALSE, 0)
  /\ agent = Free
  /\ inflight = [p \in Procs |-> Idle]
  /\ advised = FALSE

Next ==
  \/ \E inv \in Invocations : PreToolUse(inv)
  \/ \E inv \in Invocations : PostNoOp(inv)
  \/ \E inv \in Invocations : PostGated(inv)
  \/ \E o \in Origins : SessionStart(o[1], o[2])
  \/ SaveDecision
  \/ SaveResearch
  \/ CheckMemory
  \/ SessionSummary
  \/ Tick

Spec == Init /\ [][Next]_vars

\* The engine driven by an agent that follows the unblocking protocol.  While
\* the agent is free the files change as in Spec (a pre-check changes no
\* file, so only the agent's own pre-checks are run here).
LiveNext ==
  \/ agent = Free /\ \E inv \in Invocations : PostGated(inv)
  \/ agent = Free /\ \E o \in Origins : SessionStart(o[1], o[2])
  \/ agent = Free /\ SaveDecision
  \/ agent = Free /\ SaveResearch
  \/ agent = Free /\ CheckMemory
  \/ agent = Free /\ SessionSummary
  \/ agent = Free /\ Tick
  \/ \E inv \in Invocations : AgentBegin(inv)
  \/ AgentTry
  \/ AgentConsult
  \/ AgentSave
  \/ AgentDone

\* One session in which the post-checks of parallel tool calls interleave.
RaceNext ==
  \/ \E p \in Procs : \E inv \in RaceCalls : PostRead(p, inv)
  \/ \E p \in Procs : PostWrite(p)
  \/ \E inv \in RaceCalls : PreToolUse(inv)
  \/ SaveDecision
  \/ SaveResearch
  \/ SessionSummary
  \/ Tick

RaceSpec == Init /\ [][RaceNext]_vars

\* One project in which tasks are created, completed and deleted between
\* gated calls, summaries and session starts.
TaskNext ==
  \/ \E inv \in TaskInvocations : PostTaskTool(inv)
  \/ \E inv \in Invocations : PostGated(inv)
  \/ \E o \in Origins : SessionStart(o[1], o[2])
  \/ SessionSummary
  \/ Tick

TaskSpec == Init /\ [][TaskNext]_vars

\* The intent classifier applied to Shell calls: every command below with
\* every description below.
ClassCommands ==
  { GrepCmd, MkdirCmd,
    <<"find", ".", "-name", "foo">>,
    <<"cd", "src", "&&", "grep", "-r", "foo">>,
    <<"git", "log">>,
    <<"git", "commit", "-m", "foo">>,
    <<"echo", "foo", "|", "grep", "foo">>,
    <<"ls", "|", "grep", "foo">>,
    <<"python", "script.py">>,
    <<"npm", "view", "foo">>,
    <<"sudo", "mkdir", "build">> }

ClassDescriptions ==
  { << >>, <<"debug">>, <<"fix">>, <<"search">>, <<"commit">>,
    SearchDesc, CreateDesc,
    <<"search", "build">>, <<"the", "thing">>,
    <<"debug", "search", "fix">>, <<"inspect", "create", "tests">>,
    <<"look", "for", "foo">> }

\* the call of isExploratoryBash(input) in main
Classify(inv) ==
  /\ inv.tool = "Bash"
  /\ ev' = Event("classify", inv,
                 IF isExploratoryBash(inv) THEN "exploratory" ELSE "operational",
                 FALSE, 0)
  /\ UNCHANGED <<now, reminderFile, memCheckFile, trackerFile, decisions,
                 research, registry, homeScan, accounted, agent, inflight, advised>>

ClassNext ==
  \E c \in ClassCommands : \E d \in ClassDescriptions :
     Classify(Inv("Bash", c, d, "", "", "project", ""))

ClassSpec == Init /\ [][ClassNext]_vars

\* Shell calls in one project: an exploring, a safelisted, an unclassified
\* and a save-script command, each with an exploratory description, an
\* operational one and none, around session starts, summaries, saves and
\* clock steps.
ShellCommands ==
  { GrepCmd, MkdirCmd, <<"git", "commit", "-m", "foo">>,
    <<"python", "script.py">>, SaveDecisionCmd }

ShellCalls ==
  { Inv("Bash", cmd, desc, "", "", "project", "") :
      cmd \in ShellCommands, desc \in {SearchDesc, CreateDesc, << >>} }

ShellNext ==
  \/ \E inv \in ShellCalls : PreToolUse(inv)
  \/ \E inv \in ShellCalls : PostNoOp(inv)
  \/ \E inv \in ShellCalls : PostGated(inv)
  \/ SessionStart("project", "")
  \/ SessionSummary
  \/ SaveDecision
  \/ Tick

ShellSpec == Init /\ [][ShellNext]_vars

\* The escalation-state file written and read back: writeState applied to
\* states with numeric fields (finite ones, and a reminderCount that is not
\* finite), the bare timestamp an older version wrote, and both hooks run on
\* what the file then holds.
EscalationStates ==
  [ts : {0, 1, MaxTime},
   reminderCount : (0..(ESCALATION_THRESHOLD + 1)) \cup {NonFinite},
   lastSaveTs : {0, 1, MaxTime}]

FiniteStates == { st \in EscalationStates : st.reminderCount # NonFinite }

\* a call of writeState(projectRoot, state)
WriteState(st) ==
  /\ reminderFile' = writeState(st)
  /\ ev' = Event("writeState", NoInv, "none", FALSE, 0)
  /\ UNCHANGED <<now, memCheckFile, trackerFile, decisions, research, registry,
                 homeScan, accounted, agent, inflight, advised>>

\* the write of the old format: the time of the reminder and nothing else
WriteLegacy(v) ==
  /\ reminderFile' = LegacyFile(v)
  /\ ev' = Event("writeLegacy", NoInv, "none", FALSE, 0)
  /\ UNCHANGED <<now, memCheckFile, trackerFile, decisions, research, registry,
                 homeScan, accounted, agent, inflight, advised>>

RoundTripNext ==
  \/ \E st \in EscalationStates : WriteState(st)
  \/ \E v \in 0..MaxTime : WriteLegacy(v)
  \/ \E inv \in RaceCalls : PreToolUse(inv)
  \/ \E inv \in RaceCalls : PostGated(inv)
  \/ Tick

RoundTripSpec == Init /\ [][RoundTripNext]_vars

\* Unlocking after a forced escalation, in a project whose store is empty or
\* holds one decision of an earlier session (a log that exists holds a
\* record): web and exploration-delegate calls, saves, consultations, session
\* starts and clock steps.
UnlockInit ==
  /\ now = 1
  /\ reminderFile = AbsentFile
  /\ memCheckFile = NoFile
  /\ trackerFile = AbsentFile
  /\ decisions \in {NoLog, appendRecord(NoLog, 1)}
  /\ research = NoLog
  /\ registry = {}
  /\ homeScan = FALSE
  /\ accounted = {}
  /\ ev = Event("init", NoInv, "none", FALSE, 0)
  /\ agent = Free
  /\ inflight = [p \in Procs |-> Idle]
  /\ advised = FALSE

\* save-decision.js in a project that may hold a decision already: the log
\* takes one record more than MaxRecords
SaveAnotherDecision ==
  /\ now > getLastSaveTs(decisions, research)
  /\ decisions.records <= MaxRecords
  /\ decisions' = appendRecord(decisions, now)
  /\ ev' = Event("save-decision", NoInv, "none", FALSE, 0)
  /\ UNCHANGED <<now, reminderFile, memCheckFile, trackerFile, research, registry,
                 homeScan, accounted, agent, inflight, advised>>

UnlockCalls ==
  { Inv("WebFetch", NoCmd, << >>, "", "", "project", ""),
    Inv("WebSearch", NoCmd, << >>, "", "", "project", ""),
    Inv("Task", NoCmd, << >>, "Explore", "", "project", ""),
    Inv("Bash", GrepCmd, SearchDesc, "", "", "project", "") }

UnlockNext ==
  \/ \E inv \in UnlockCalls : PreToolUse(inv)
  \/ \E inv \in UnlockCalls : PostGated(inv)
  \/ SaveAnotherDecision
  \/ SaveResearch
  \/ CheckMemory
  \/ SessionStart("project", "")
  \/ Tick

UnlockSpec == UnlockInit /\ [][UnlockNext]_vars

\* Delegations: Task calls for every exploration-flavored subagent, for
\* other subagents (one differs from a listed name in case only) and with no
\* subagent_type, between saves, consultations and clock steps.
DelegateSubagents ==
  EXPLORATION_SUBAGENTS \cup {"code-simplifier", "explore", ""}

DelegateCalls ==
  { Inv("Task", NoCmd, << >>, sub, "", "project", "") : sub \in DelegateSubagents }

DelegateNext ==
  \/ \E inv \in DelegateCalls : PreToolUse(inv)
  \/ \E inv \in DelegateCalls : PostGated(inv)
  \/ SaveResearch
  \/ CheckMemory
  \/ Tick

DelegateSpec == Init /\ [][DelegateNext]_vars

\* A host that starts the hooks inside the project or in an unrelated
\* directory, with the id of a session that session-start has registered
\* (s1), of one it has not (s2), or with no id.
RootOrigins ==
  { <<"project", "s1">>, <<"outside", "s1">>, <<"outside", "s2">>, <<"outside", "">> }

RootCalls ==
  { Inv("Bash", GrepCmd, SearchDesc, "", "", o[1], o[2]) : o \in RootOrigins }
  \cup { Inv("WebFetch", NoCmd, << >>, "", "", o[1], o[2]) : o \in RootOrigins }

RootNext ==
  \/ \E inv \in RootCalls : PreToolUse(inv)
  \/ \E inv \in RootCalls : PostNoOp(inv)
  \/ \E inv \in RootCalls : PostGated(inv)
  \/ \E o \in RootOrigins : SessionStart(o[1], o[2])
  \/ SaveResearch
  \/ Tick

RootSpec == Init /\ [][RootNext]_vars

\* The task tracker under post-check processes that overlap.  readTaskTracker
\* and writeTaskTracker are two system calls with no lock around them, so a
\* process is split at the point between them: TrackerRead is main up to and
\* including readTaskTracker, TrackerWrite is the increment, writeTaskTracker
\* and the exit.  The gated call is an operational Shell call, for which main
\* exits after the checkpoint test.
TrackerCalls ==
  { Inv("Bash", MkdirCmd, CreateDesc, "", "", "project", ""),
    Inv("TaskCreate", NoCmd, << >>, "", "", "project", ""),
    Inv("TaskUpdate", NoCmd, << >>, "", "completed", "project", "") }

TrackerRead(p, inv) ==
  /\ inflight[p] = Idle
  /\ PostResolveProjectRoot(inv)
  /\ inflight' = [inflight EXCEPT ![p] =
                    [inv |-> inv, tracker |-> readTaskTracker(trackerFile),
                     pc |-> "tracker"]]
  /\ ev' = Event("read", inv, "none", FALSE, 0)
  /\ UNCHANGED <<now, reminderFile, memCheckFile, trackerFile, decisions, research,
                 registry, homeScan, accounted, agent, advised>>

\* a variant of the write that reads the tracker again before it increments
MutTrackerWrite_ReadsAgain(p) ==
  /\ inflight[p] # Idle
  /\ inflight[p].pc = "tracker"
  /\ LET inv == inflight[p].inv
         tracker == readTaskTracker(trackerFile)
         written == IF inv.tool \in TASK_TOOLS
                    THEN TaskTrack(inv, tracker)
                    ELSE [tracker EXCEPT !.toolCallsSinceSummary = @ + 1]
         done == inv.tool = "TaskUpdate" /\ inv.status = "completed"
                 /\ AllTasksComplete(written)
     IN  /\ written.created <= MaxTasks
         /\ written.completed <= MaxTasks
         /\ written.toolCallsSinceSummary <= MaxCalls
         /\ trackerFile' = TrackerJson(written)
         /\ ev' = Event("post", inv,
                        IF inv.tool \in TASK_TOOLS
                        THEN (IF done THEN "block_tasks" ELSE "none")
                        ELSE (IF CheckpointReached(written) THEN "block_checkpoint"
                              ELSE "none"),
                        FALSE, 0)
         /\ advised' = (advised \/ done)
  /\ inflight' = [inflight EXCEPT ![p] = Idle]
  /\ UNCHANGED <<now, reminderFile, memCheckFile, decisions, research, registry,
                 homeScan, accounted, agent>>

TrackerWrite(p) ==
  /\ inflight[p] # Idle
  /\ inflight[p].pc = "tracker"
  /\ LET inv == inflight[p].inv
         tracker == inflight[p].tracker
         written == IF inv.tool \in TASK_TOOLS
                    THEN TaskTrack(inv, tracker)
                    ELSE [tracker EXCEPT !.toolCallsSinceSummary = @ + 1]
         done == inv.tool = "TaskUpdate" /\ inv.status = "completed"
                 /\ AllTasksComplete(written)
     IN  /\ written.created <= MaxTasks
         /\ written.completed <= MaxTasks
         /\ written.toolCallsSinceSummary <= MaxCalls
         /\ trackerFile' = TrackerJson(written)
         /\ ev' = Event("post", inv,
                        IF inv.tool \in TASK_TOOLS
                        THEN (IF done THEN "block_tasks" ELSE "none")
                        ELSE (IF CheckpointReached(written) THEN "block_checkpoint"
                              ELSE "none"),
                        FALSE, 0)
         /\ advised' = (advised \/ done)
  /\ inflight' = [inflight EXCEPT ![p] = Idle]
  /\ UNCHANGED <<now, reminderFile, memCheckFile, decisions, research, registry,
                 homeScan, accounted, agent>>

TrackerRaceNext ==
  \/ \E p \in Procs : \E inv \in TrackerCalls : TrackerRead(p, inv)
  \/ \E p \in Procs : TrackerWrite(p)
  \/ SessionSummary

TrackerRaceInit ==
  /\ now = 1
  /\ reminderFile = AbsentFile
  /\ memCheckFile = NoFile
  /\ trackerFile = AbsentFile
  /\ decisions = NoLog
  /\ research = NoLog
  /\ registry = {}
  /\ homeScan = FALSE
  /\ accounted = {}
  /\ ev = Event("init", NoInv, "none", FALSE, 0)
  /\ agent = Free
  /\ inflight = [p \in Procs |-> Idle]
  /\ advised = FALSE

TrackerRaceSpec == TrackerRaceInit /\ [][TrackerRaceNext]_vars

\* session-stop.js, the Stop hook.  It first removes the session-registry
\* entry of its session id, then resolves the project root: findProjectRoot
\* from the working directory, else the registry entry, read from the
\* registry as the removal has left it.  With a root it writes the session
\* summary and the condensed transcript into the project ("summary"); with
\* none it answers {} and exits ("skipped").
StopCleanup(sess) == IF sess # "" THEN registry \ {sess} ELSE registry

StopResolveProjectRoot(cwd, sess) ==
  \/ findProjectRoot(cwd)
  \/ sess # "" /\ sess \in StopCleanup(sess)

SessionStop(cwd, sess) ==
  /\ registry' = StopCleanup(sess)
  /\ ev' = Event("stop", Inv("", NoCmd, << >>, "", "", cwd, sess),
                 IF StopResolveProjectRoot(cwd, sess) THEN "summary" ELSE "skipped",
                 FALSE, 0)
  /\ UNCHANGED <<now, reminderFile, memCheckFile, trackerFile, decisions, research,
                 homeScan, accounted, agent, inflight, advised>>

StopNext ==
  \/ \E inv \in RootCalls : PreToolUse(inv)
  \/ \E inv \in RootCalls : PostNoOp(inv)
  \/ \E inv \in RootCalls : PostGated(inv)
  \/ \E o \in RootOrigins : SessionStart(o[1], o[2])
  \/ \E o \in RootOrigins : SessionStop(o[1], o[2])
  \/ SaveResearch
  \/ Tick

StopSpec == Init /\ [][StopNext]_vars

\* The same host on a machine whose home directory may hold the project as a
\* child (then scanHomeForProjects finds it) or may not.
ScopeInit ==
  /\ now = 1
  /\ reminderFile = AbsentFile
  /\ memCheckFile = NoFile
  /\ trackerFile = AbsentFile
  /\ decisions = NoLog
  /\ research = NoLog
  /\ registry = {}
  /\ homeScan \in BOOLEAN
  /\ accounted = {}
  /\ ev = Event("init", NoInv, "none", FALSE, 0)
  /\ agent = Free
  /\ inflight = [p \in Procs |-> Idle]
  /\ advised = FALSE

ScopeNext ==
  \/ \E inv \in RootCalls : PreToolUse(inv)
  \/ \E inv \in RootCalls : PostNoOp(inv)
  \/ \E inv \in RootCalls : PostGated(inv)
  \/ \E inv \in TaskInvocations : PostTaskTool(inv)
  \/ \E o \in RootOrigins : SessionStart(o[1], o[2])
  \/ SaveResearch
  \/ Tick

ScopeSpec == ScopeInit /\ [][ScopeNext]_vars

\* A project whose escalation-state file and task-tracker file were damaged
\* before the hooks run: emptied, cut short, overwritten with other text, or
\* holding a JSON object whose reminderCount is not a number.
MistypedState == [ts |-> 0, reminderCount |-> NonNumeric, lastSaveTs |-> 0]

CorruptInit ==
  /\ now = 1
  /\ reminderFile \in {AbsentFile, EmptyFile, TruncatedFile, CorruptFile,
                       StateJson(MistypedState)}
  /\ memCheckFile = NoFile
  /\ trackerFile \in {AbsentFile, EmptyFile, TruncatedFile, CorruptFile}
  /\ \/ decisions = NoLog /\ research = NoLog
     \/ decisions = EmptyLog(1) /\ research = EmptyLog(1)
  /\ registry = {}
  /\ homeScan = FALSE
  /\ accounted = {}
  /\ ev = Event("init", NoInv, "none", FALSE, 0)
  /\ agent = Free
  /\ inflight = [p \in Procs |-> Idle]
  /\ advised = FALSE

CorruptNext ==
  \/ \E inv \in RaceCalls : PreToolUse(inv)
  \/ \E inv \in RaceCalls : PostGated(inv)
  \/ \E inv \in TaskInvocations : PostTaskTool(inv)
  \/ SaveDecision
  \/ Tick

CorruptSpec == CorruptInit /\ [][CorruptNext]_vars

\* The two hooks started on every kind of standard input, between saves,
\* consultations and clock steps.
PayloadNext ==
  \/ \E p \in Payloads : PrePayload(p)
  \/ \E p \in Payloads : PostPayload(p)
  \/ SaveResearch
  \/ CheckMemory
  \/ Tick

PayloadSpec == Init /\ [][PayloadNext]_vars

LiveSpec ==
  Init /\ [][LiveNext]_vars
       /\ WF_vars(AgentTry) /\ WF_vars(AgentConsult) /\ WF_vars(AgentSave)

\* ------------------------------------------------------------------------
\* Vocabulary of the properties
\* ------------------------------------------------------------------------
\* the persisted escalation state, as a hook reads it
Persisted == readState(reminderFile)
\* the latest Knowledge Store save timestamp
LatestSave == getLastSaveTs(decisions, research)
\* a consultation completed within the TTL
ConsultedWithinTTL ==
  memCheckFile # NoFile /\ now - memCheckFile < MEMORY_CHECK_TTL_MS
\* the last run was the pre-check / post-check of a gated tool kind
PreChecked == ev.hook = "pre" /\ ev.inv.tool \in {"Bash", "WebFetch", "WebSearch", "Task"}
PostChecked == ev.hook = "post" /\ ev.inv.tool \in {"Bash", "WebFetch", "WebSearch", "Task"}
\* the invocation was started where the project root resolves
RootResolved == ev.inv.cwd = "project"
\* a Shell call that runs one of the save / consult scripts
RunsSaveOrConsult ==
  ev.inv.tool = "Bash"
  /\ ev.inv.command \in {SaveDecisionCmd, SaveResearchCmd, CheckMemoryCmd}
\* a web call or a delegation to an exploration-flavored subagent
WebOrExploreDelegate ==
  \/ ev.inv.tool \in {"WebFetch", "WebSearch"}
  \/ ev.inv.tool = "Task" /\ ev.inv.subagent \in EXPLORATION_SUBAGENTS
Denied == ev.out \in {"deny_memory", "deny_escalation"}
Blocking == {"block_save", "block_escalated", "block_checkpoint", "block_tasks"}

\* ------------------------------------------------------------------------
\* C1. Escalated denial: when the project root resolves, the persisted
\* reminderCount exceeds ESCALATION_THRESHOLD and the latest save timestamp is
\* not greater than the persisted lastSaveTs, the pre-check denies every call
\* of a gated tool kind that is not a save / consult command.
\* ------------------------------------------------------------------------
C1_EscalatedDenial ==
  ( /\ PreChecked
    /\ RootResolved
    /\ ~RunsSaveOrConsult
    /\ Persisted.reminderCount > ESCALATION_THRESHOLD
    /\ LatestSave <= Persisted.lastSaveTs )
  => Denied

C1_Witness ==
  /\ PreChecked
  /\ RootResolved
  /\ ev.inv.tool = "Bash"
  /\ ev.inv.command = GrepCmd
  /\ Persisted.reminderCount > ESCALATION_THRESHOLD
  /\ LatestSave <= Persisted.lastSaveTs
  /\ LatestSave > 0
  /\ ev.out = "deny_escalation"

\* ------------------------------------------------------------------------
\* C2 (as stated). Calm allows: while the persisted reminderCount is at most
\* ESCALATION_THRESHOLD the pre-check allows every gated call, whatever the
\* tool kind, the store and the sentinel.
\* ------------------------------------------------------------------------
C2_CalmAlwaysAllows ==
  (PreChecked /\ Persisted.reminderCount <= ESCALATION_THRESHOLD)
  => ev.out = "allow"

\* C2 (amended). While the persisted reminderCount is at most
\* ESCALATION_THRESHOLD the pre-check never issues the escalation denial: it
\* allows the call, unless the call is a WebFetch, a WebSearch or a delegation
\* to an exploration-flavored subagent, research findings exist and no
\* consultation completed within the TTL, in which case it issues the
\* consult-memory denial.
C2_CalmNeverEscalationDenial ==
  (PreChecked /\ Persisted.reminderCount <= ESCALATION_THRESHOLD)
  => \/ ev.out = "allow"
     \/ /\ ev.out = "deny_memory"
        /\ WebOrExploreDelegate
        /\ research.records >= 1
        /\ ~ConsultedWithinTTL

C2_Witness ==
  /\ PreChecked
  /\ RootResolved
  /\ ev.inv.tool = "Bash"
  /\ ev.inv.command = GrepCmd
  /\ Persisted.reminderCount = ESCALATION_THRESHOLD
  /\ research.records >= 1
  /\ memCheckFile = NoFile
  /\ ev.out = "allow"

\* ------------------------------------------------------------------------
\* C3. In every reachable state the pre-check allows a Shell call whose
\* command runs save-decision, save-research or check-memory.
\* ------------------------------------------------------------------------
C3_SaveConsultAlwaysAllowed ==
  (ev.hook = "pre" /\ RunsSaveOrConsult) => ev.out = "allow"

C3_Witness ==
  /\ ev.hook = "pre"
  /\ RootResolved
  /\ ev.inv.tool = "Bash"
  /\ ev.inv.command = CheckMemoryCmd
  /\ Persisted.reminderCount > ESCALATION_THRESHOLD
  /\ LatestSave <= Persisted.lastSaveTs
  /\ research.records >= 1
  /\ memCheckFile = NoFile
  /\ ev.out = "allow"

\* ------------------------------------------------------------------------
\* C4. In every reachable state the pre-check allows a Shell call whose
\* command runs the session-summary action.
\* ------------------------------------------------------------------------
C4_SummaryAlwaysAllowed ==
  (ev.hook = "pre" /\ ev.inv.tool = "Bash" /\ ev.inv.command = SessionSummaryCmd)
  => ev.out = "allow"

\* ------------------------------------------------------------------------
\* C5. No indefinite blocking: an agent that answers each consult-memory
\* denial by running check-memory and each escalation denial by running
\* save-decision or save-research, and then retries, is eventually allowed
\* its call, from every reachable state and for every gated call.
\* ------------------------------------------------------------------------
C5_NoIndefiniteBlocking == (agent.mode # "free") ~> (agent.mode = "done")

C5_Witness ==
  /\ agent.mode = "done"
  /\ agent.consulted
  /\ agent.saved
  /\ ev.hook = "pre"
  /\ ev.out = "allow"

\* ------------------------------------------------------------------------
\* C6 (as stated). Consultation gate for web and delegation calls: with at
\* least one record in either log and no consultation within the TTL the
\* pre-check issues the consult-memory denial; with an empty or missing store
\* it never does.
\* ------------------------------------------------------------------------
C6_GateOnEitherLog ==
  (ev.hook = "pre" /\ RootResolved /\ WebOrExploreDelegate)
  => /\ ( (decisions.records >= 1 \/ research.records >= 1) /\ ~ConsultedWithinTTL )
          => ev.out = "deny_memory"
     /\ ( decisions.records = 0 /\ research.records = 0 )
          => ev.out # "deny_memory"

\* C6 (amended). For WebFetch, WebSearch and delegation to an
\* exploration-flavored subagent, when the project root resolves: whenever the
\* research-findings log holds at least one saved record (the file is larger
\* than 50 bytes) and no consultation completed within the TTL, the pre-check
\* issues the consult-memory denial; when the research-findings log is empty
\* or missing it never does, whatever the decisions log holds.
C6_GateOnResearchLog ==
  (ev.hook = "pre" /\ RootResolved /\ WebOrExploreDelegate)
  => /\ ( research.records >= 1 /\ ~ConsultedWithinTTL ) => ev.out = "deny_memory"
     /\ research.records = 0 => ev.out # "deny_memory"

C6_Witness ==
  /\ ev.hook = "pre"
  /\ RootResolved
  /\ ev.inv.tool = "Task"
  /\ ev.inv.subagent = "Explore"
  /\ research.records >= 1
  /\ memCheckFile # NoFile
  /\ now - memCheckFile >= MEMORY_CHECK_TTL_MS
  /\ ev.out = "deny_memory"

\* ------------------------------------------------------------------------
\* C7. Consultation gate for Shell calls: with a non-empty store and no
\* consultation sentinel the pre-check issues the consult-memory denial for a
\* Shell call that the intent classifier classifies Exploratory.
\* ------------------------------------------------------------------------
C7_ShellConsultGate ==
  ( /\ ev.hook = "pre"
    /\ RootResolved
    /\ ev.inv.tool = "Bash"
    /\ ~RunsSaveOrConsult
    /\ isExploratoryBash(ev.inv)
    /\ (decisions.records >= 1 \/ research.records >= 1)
    /\ memCheckFile = NoFile )
  => ev.out = "deny_memory"

\* ------------------------------------------------------------------------
\* C8 (as stated). Immediate escalation: the first post-check of a session
\* (the run that follows the session start, so no save came before it) for a
\* WebFetch, WebSearch or Delegate call emits a blocking message and leaves
\* the persisted reminderCount at ESCALATION_THRESHOLD + 1, for every subagent
\* kind.
\* ------------------------------------------------------------------------
C8_ImmediateForEveryKind ==
  [][ ( /\ ev.hook = "start"
        /\ ev.inv.cwd = "project"
        /\ ev'.hook = "post"
        /\ ev'.inv.tool \in {"WebFetch", "WebSearch", "Task"}
        /\ ev'.inv.cwd = "project" )
      => /\ ev'.out \in Blocking
         /\ readState(reminderFile').reminderCount = ESCALATION_THRESHOLD + 1 ]_vars

\* C8 (amended). For WebFetch, WebSearch and delegation to an
\* exploration-flavored subagent, when the project root resolves and the
\* gated-call counter written by the post-check is below the checkpoint
\* threshold, the post-check emits the blocking save message and leaves the
\* persisted reminderCount at ESCALATION_THRESHOLD + 1.
C8_ImmediateEscalation ==
  ( /\ ev.hook = "post"
    /\ RootResolved
    /\ WebOrExploreDelegate
    /\ readTaskTracker(trackerFile).toolCallsSinceSummary < SUMMARY_CHECKPOINT_CALLS )
  => /\ ev.out = "block_save"
     /\ Persisted.reminderCount = ESCALATION_THRESHOLD + 1

C8_Witness ==
  /\ ev.hook = "post"
  /\ RootResolved
  /\ ev.inv.tool = "Task"
  /\ ev.inv.subagent = "Explore"
  /\ readTaskTracker(trackerFile).toolCallsSinceSummary = 1
  /\ ev.out = "block_save"
  /\ Persisted.reminderCount = ESCALATION_THRESHOLD + 1

\* ------------------------------------------------------------------------
\* C9. Reset transition: a post-check that reaches the escalation tracker
\* while the latest save timestamp is greater than the persisted lastSaveTs
\* (lastSaveTs = 0 included) discards the accumulated reminders: a gradual
\* post-check persists reminderCount = 1, and lastSaveTs advances to the
\* observed save time.
\* ------------------------------------------------------------------------
C9_ResetOnNewerSave ==
  [][ ( /\ ev'.hook = "post"
        /\ ev'.out \in {"systemMessage", "block_escalated", "block_save"}
        /\ LatestSave > Persisted.lastSaveTs )
      => /\ readState(reminderFile').lastSaveTs = LatestSave
         /\ ev'.out # "block_save" => readState(reminderFile').reminderCount = 1 ]_vars

\* ------------------------------------------------------------------------
\* C10. Reset idempotence: once an evaluation of the session has advanced
\* lastSaveTs to the save time S, no later evaluation that observes S as the
\* latest save time resets reminderCount.
\* ------------------------------------------------------------------------
C10_ResetIdempotent ==
  [][ (ev'.hook = "post" /\ ev'.reset) => LatestSave \notin accounted ]_vars

C10_Witness ==
  /\ ev.hook = "post"
  /\ ev.out = "systemMessage"
  /\ ~ev.reset
  /\ LatestSave \in accounted
  /\ Persisted.lastSaveTs = LatestSave
  /\ Persisted.reminderCount = 2
  /\ Cardinality(accounted) >= 2

\* ------------------------------------------------------------------------
\* C11 (as stated). Within one session the persisted reminderCount never
\* decreases from one persisted state to the next, unless the evaluation
\* that wrote it observed a save newer than the persisted lastSaveTs.
\* ------------------------------------------------------------------------
C11_MonotoneUnlessSave ==
  [][ ev'.hook # "start"
      => \/ readState(reminderFile').reminderCount >= Persisted.reminderCount
         \/ LatestSave > Persisted.lastSaveTs ]_vars

\* C11 (amended). Within one session the persisted reminderCount never
\* decreases from one persisted state to the next, unless the evaluation
\* that wrote it observed a save newer than the persisted lastSaveTs (a
\* gradual post-check then restarts from 0 and persists 1), or the evaluation
\* is the post-check of an immediate-save tool kind, which sets the count to
\* ESCALATION_THRESHOLD + 1 whatever it was.
C11_MonotoneUnlessSaveOrForced ==
  [][ ev'.hook # "start"
      => \/ readState(reminderFile').reminderCount >= Persisted.reminderCount
         \/ /\ LatestSave > Persisted.lastSaveTs
            /\ ev'.hook = "post"
            /\ ev'.reset
            /\ ev'.out = "systemMessage"
            /\ readState(reminderFile').reminderCount = 1
         \/ /\ ev'.hook = "post"
            /\ ev'.out = "block_save"
            /\ ev'.inv.tool \in IMMEDIATE_SAVE_TOOLS
            /\ readState(reminderFile').reminderCount = ESCALATION_THRESHOLD + 1 ]_vars

C11_Witness ==
  /\ ev.hook = "post"
  /\ ev.out = "systemMessage"
  /\ ev.reset
  /\ ev.was > ESCALATION_THRESHOLD
  /\ Persisted.reminderCount = 1
  /\ Persisted.lastSaveTs = LatestSave

\* ------------------------------------------------------------------------
\* C12 (as stated). Only way out of Escalated: under any interleaving of the
\* post-check processes of one session, a persisted reminderCount above
\* ESCALATION_THRESHOLD returns to a value at or below it only through an
\* evaluation that observed a save newer than the lastSaveTs it read.
\* ------------------------------------------------------------------------
WriterObservedSave ==
  \E p \in Procs :
    /\ inflight[p] # Idle
    /\ inflight'[p] = Idle
    /\ inflight[p].currentSaveTs > inflight[p].state.lastSaveTs

C12_OnlyWayOutUnderRaces ==
  [][ ( /\ Persisted.reminderCount > ESCALATION_THRESHOLD
        /\ readState(reminderFile').reminderCount <= ESCALATION_THRESHOLD )
      => WriterObservedSave ]_vars

\* C12 (amended). Under any interleaving of the post-check processes of one
\* session, a persisted reminderCount above ESCALATION_THRESHOLD returns to a
\* value at or below it only through the write of a gradual post-check that
\* either observed a save newer than the (positive) lastSaveTs it read, and
\* then persists 1, or had read the state while its reminderCount was still
\* below the threshold, and then persists that stale count plus one (a lost
\* update of the escalation).
C12_OnlyWayOutOrStaleWriter ==
  [][ ( /\ Persisted.reminderCount > ESCALATION_THRESHOLD
        /\ readState(reminderFile').reminderCount <= ESCALATION_THRESHOLD )
      => \E p \in Procs :
           /\ inflight[p] # Idle
           /\ inflight'[p] = Idle
           /\ inflight[p].inv.tool \notin IMMEDIATE_SAVE_TOOLS
           /\ \/ /\ inflight[p].currentSaveTs > inflight[p].state.lastSaveTs
                 /\ inflight[p].state.lastSaveTs > 0
                 /\ readState(reminderFile').reminderCount = 1
              \/ /\ inflight[p].state.reminderCount < ESCALATION_THRESHOLD
                 /\ readState(reminderFile').reminderCount
                      = inflight[p].state.reminderCount + 1 ]_vars

C12_Witness ==
  /\ ev.hook = "post"
  /\ ev.reset
  /\ ev.was > ESCALATION_THRESHOLD
  /\ Persisted.reminderCount <= ESCALATION_THRESHOLD
  /\ \E p \in Procs : inflight[p] # Idle

\* ------------------------------------------------------------------------
\* C13 (as stated). lastSaveTs is monotonic under races: under any
\* interleaving of the post-check processes of one session the persisted
\* lastSaveTs never decreases.
\* ------------------------------------------------------------------------
C13_SaveTsMonotoneUnderRaces ==
  [][ readState(reminderFile').lastSaveTs >= Persisted.lastSaveTs ]_vars

\* C13 (amended). Every post-check process persists a lastSaveTs that is at
\* least the lastSaveTs it read and at least the save time it observed; the
\* persisted lastSaveTs decreases only by the write of a process that had
\* read the state before another process advanced it (a stale read).
C13_SaveTsMonotonePerWriter ==
  [][ \A p \in Procs :
        (inflight[p] # Idle /\ inflight'[p] = Idle)
        => /\ readState(reminderFile').lastSaveTs >= inflight[p].state.lastSaveTs
           /\ readState(reminderFile').lastSaveTs >= inflight[p].currentSaveTs
           /\ readState(reminderFile').lastSaveTs < Persisted.lastSaveTs
                => inflight[p].state.lastSaveTs < Persisted.lastSaveTs ]_vars

\* a stale write has lowered lastSaveTs below a save that was accounted for
C13_Witness ==
  /\ ev.hook = "post"
  /\ LatestSave \in accounted
  /\ Persisted.lastSaveTs < LatestSave
  /\ Persisted.lastSaveTs > 0

\* ------------------------------------------------------------------------
\* C14. Operational exemption in pre-check: the pre-check allows every Shell
\* call that the intent classifier classifies Operational, in every
\* escalation state, Escalated with no save observed included.
\* ------------------------------------------------------------------------
C14_OperationalShellAllowed ==
  ( /\ ev.hook = "pre"
    /\ ev.inv.tool = "Bash"
    /\ ~isExploratoryBash(ev.inv) )
  => ev.out = "allow"

\* ------------------------------------------------------------------------
\* C15 (as stated). Session reset: after the session-start hook completes
\* for a resolvable project root the sentinel is absent, the escalation state
\* reads as the default and the three task-tracker counters are 0; so the
\* first web / exploration-delegate pre-check of a session with a non-empty
\* store (a record in either log) is denied with the consult-memory reason.
\* ------------------------------------------------------------------------
C15_SessionResetAnyStore ==
  [][ /\ (ev'.hook = "start" /\ ev'.inv.cwd = "project")
         => /\ memCheckFile' = NoFile
            /\ readState(reminderFile') = defaultState
            /\ readTaskTracker(trackerFile') = defaults
      /\ ( /\ ev.hook = "start" /\ ev.inv.cwd = "project"
           /\ ev'.hook = "pre" /\ ev'.inv.cwd = "project"
           /\ \/ ev'.inv.tool \in {"WebFetch", "WebSearch"}
              \/ ev'.inv.tool = "Task" /\ ev'.inv.subagent \in EXPLORATION_SUBAGENTS
           /\ (decisions.records >= 1 \/ research.records >= 1) )
         => ev'.out = "deny_memory" ]_vars

\* C15 (amended). As stated, with the consequence limited to a store whose
\* research-findings log holds at least one record.
C15_SessionReset ==
  [][ /\ (ev'.hook = "start" /\ ev'.inv.cwd = "project")
         => /\ memCheckFile' = NoFile
            /\ readState(reminderFile') = defaultState
            /\ readTaskTracker(trackerFile') = defaults
      /\ ( /\ ev.hook = "start" /\ ev.inv.cwd = "project"
           /\ ev'.hook = "pre" /\ ev'.inv.cwd = "project"
           /\ \/ ev'.inv.tool \in {"WebFetch", "WebSearch"}
              \/ ev'.inv.tool = "Task" /\ ev'.inv.subagent \in EXPLORATION_SUBAGENTS
           /\ research.records >= 1 )
         => ev'.out = "deny_memory" ]_vars

\* a session start that found an escalated state and left the defaults
C15_Witness ==
  /\ ev.hook = "start"
  /\ ev.inv.cwd = "project"
  /\ ev.was > ESCALATION_THRESHOLD
  /\ Persisted = defaultState
  /\ memCheckFile = NoFile
  /\ readTaskTracker(trackerFile) = defaults
  /\ research.records >= 1

\* ------------------------------------------------------------------------
\* C16 (as stated). Forced re-consultation: after the post-check of a web
\* call or an exploration delegate has force-escalated, the sentinel is
\* absent, even if a consultation was within the TTL; with a non-empty store
\* (a record in either log) a web / exploration-delegate pre-check that finds
\* the forced state and no sentinel is denied.
\* ------------------------------------------------------------------------
C16_ForcedReconsultAnyStore ==
  /\ (ev.hook = "post" /\ ev.out = "block_save") => memCheckFile = NoFile
  /\ ( /\ ev.hook = "pre"
       /\ RootResolved
       /\ WebOrExploreDelegate
       /\ Persisted.reminderCount = ESCALATION_THRESHOLD + 1
       /\ memCheckFile = NoFile
       /\ (decisions.records >= 1 \/ research.records >= 1) )
     => Denied

\* C16 (amended). After the post-check of a web call or an exploration
\* delegate has force-escalated, the sentinel is absent, even if a
\* consultation was within the TTL; when the research-findings log holds a
\* record, a web / exploration-delegate pre-check that finds no sentinel is
\* denied with the consult-memory reason.
C16_ForcedReconsult ==
  /\ (ev.hook = "post" /\ ev.out = "block_save") => memCheckFile = NoFile
  /\ ( /\ ev.hook = "pre"
       /\ RootResolved
       /\ WebOrExploreDelegate
       /\ memCheckFile = NoFile
       /\ research.records >= 1 )
     => ev.out = "deny_memory"

\* a forced escalation that removed a sentinel still within the TTL
C16_Witness ==
  /\ ev.hook = "post"
  /\ ev.out = "block_save"
  /\ ev.cleared
  /\ memCheckFile = NoFile
  /\ research.records >= 1
  /\ PreVerdict(ev.inv) = "deny_memory"

\* ------------------------------------------------------------------------
\* C17. Consultation TTL: a consultation completed at time t whose sentinel
\* is still in place satisfies the consultation gate exactly for the
\* pre-checks evaluated at a time now with now - t < 10 minutes; at
\* now - t >= 10 minutes the gate is unmet again.
\* ------------------------------------------------------------------------
C17_ConsultationTTL ==
  ( /\ ev.hook = "pre"
    /\ RootResolved
    /\ WebOrExploreDelegate
    /\ research.records >= 1
    /\ memCheckFile # NoFile )
  => ( ev.out # "deny_memory" <=> now - memCheckFile < InUnits(10 * 60 * 1000) )

\* a pre-check one clock step before the consultation expires
C17_Witness ==
  /\ ev.hook = "pre"
  /\ RootResolved
  /\ ev.inv.tool = "WebFetch"
  /\ research.records >= 1
  /\ memCheckFile # NoFile
  /\ now - memCheckFile = InUnits(10 * 60 * 1000) - 1
  /\ ev.out = "allow"

\* ------------------------------------------------------------------------
\* C18 (as stated). Periodic checkpoint: the post-check whose increment
\* brings the gated-call counter to SUMMARY_CHECKPOINT_CALLS emits the
\* blocking run-summary advisory and then resets the counter, so the advisory
\* is emitted only by such a post-check and leaves the counter at 0.
\* ------------------------------------------------------------------------
CountedPost ==
  /\ ev'.hook = "post"
  /\ ev'.inv.tool \in MATCHED_TOOLS
  /\ ev'.inv.cwd = "project"
  /\ ~(ev'.inv.tool = "Bash" /\ isSelfCall(ev'.inv))

C18_CheckpointResetsCounter ==
  [][ CountedPost
      => /\ readTaskTracker(trackerFile').toolCallsSinceSummary = SUMMARY_CHECKPOINT_CALLS
            => ev'.out = "block_checkpoint"
         /\ ev'.out = "block_checkpoint"
            => /\ readTaskTracker(trackerFile).toolCallsSinceSummary
                    = SUMMARY_CHECKPOINT_CALLS - 1
               /\ readTaskTracker(trackerFile').toolCallsSinceSummary = 0 ]_vars

\* C18 (amended). Every counted post-check adds one to the gated-call counter
\* and never resets it; it emits the blocking run-summary advisory, whatever
\* the escalation state, exactly when the counter it wrote is at least
\* SUMMARY_CHECKPOINT_CALLS, so the advisory is repeated by every later
\* counted post-check until session-summary or a session start writes 0.
C18_CheckpointUntilSummary ==
  [][ CountedPost
      => /\ readTaskTracker(trackerFile').toolCallsSinceSummary
              = readTaskTracker(trackerFile).toolCallsSinceSummary + 1
         /\ ev'.out = "block_checkpoint"
              <=> readTaskTracker(trackerFile').toolCallsSinceSummary
                    >= SUMMARY_CHECKPOINT_CALLS ]_vars

\* the advisory emitted a second time, in the Escalated state
C18_Witness ==
  /\ ev.hook = "post"
  /\ ev.out = "block_checkpoint"
  /\ readTaskTracker(trackerFile).toolCallsSinceSummary = SUMMARY_CHECKPOINT_CALLS + 1
  /\ Persisted.reminderCount > ESCALATION_THRESHOLD

\* ------------------------------------------------------------------------
\* C19. TaskTracker invariant: completed <= created in every reachable state.
\* ------------------------------------------------------------------------
C19_CompletedAtMostCreated ==
  readTaskTracker(trackerFile).completed <= readTaskTracker(trackerFile).created

\* ------------------------------------------------------------------------
\* C20 (as stated). One-time completion advisory: between two resets of the
\* task tracker the blocking all-tasks-complete advisory is emitted at most
\* once (stated for the events that leave completed <= created).
\* ------------------------------------------------------------------------
C20_AdvisoryAtMostOnce ==
  [][ ( /\ ev'.hook = "post"
        /\ ev'.out = "block_tasks"
        /\ readTaskTracker(trackerFile').completed
             <= readTaskTracker(trackerFile').created )
      => ~advised ]_vars

\* C20 (amended). The blocking all-tasks-complete advisory is emitted by
\* exactly those task events that are a TaskUpdate with status completed, for
\* a resolved project root, after which completed >= created > 0; it is
\* emitted again by every later such event until the tracker is reset.
C20_AdvisoryOnEveryCompletion ==
  (ev.hook = "post" /\ ev.inv.tool \in TASK_TOOLS)
  => ( ev.out = "block_tasks"
       <=> /\ ev.inv.tool = "TaskUpdate"
           /\ ev.inv.status = "completed"
           /\ ev.inv.cwd = "project"
           /\ readTaskTracker(trackerFile).completed
                >= readTaskTracker(trackerFile).created
           /\ readTaskTracker(trackerFile).created > 0 )

\* the advisory emitted for the second time since the last reset, with every
\* completed task a created one
C20_Witness ==
  /\ ev.hook = "post"
  /\ ev.out = "block_tasks"
  /\ advised
  /\ readTaskTracker(trackerFile).completed = 2
  /\ readTaskTracker(trackerFile).created = 2

\* ------------------------------------------------------------------------
\* C21. Task completion step, for a task event whose project root resolves:
\* a TaskUpdate with status completed adds exactly one to tasksCompleted,
\* leaves tasksCreated alone and emits the blocking completion advisory
\* exactly when afterwards tasksCompleted >= tasksCreated > 0; a TaskUpdate
\* with another status never emits the advisory and never changes
\* tasksCompleted; a TaskUpdate with status deleted takes one from
\* tasksCreated, stopping at 0.
\* ------------------------------------------------------------------------
C21_TaskCompletionStep ==
  [][ ( /\ ev'.hook = "post"
        /\ ev'.inv.tool = "TaskUpdate"
        /\ ev'.inv.cwd = "project" )
      => LET before == readTaskTracker(trackerFile)
             after == readTaskTracker(trackerFile')
         IN  /\ ev'.inv.status = "completed"
                => /\ after.completed = before.completed + 1
                   /\ after.created = before.created
                   /\ ev'.out = "block_tasks"
                        <=> (after.completed >= after.created /\ after.created > 0)
             /\ ev'.inv.status # "completed"
                => /\ ev'.out # "block_tasks"
                   /\ after.completed = before.completed
             /\ ev'.inv.status = "deleted"
                => after.created = (IF before.created > 0 THEN before.created - 1 ELSE 0)
             /\ ev'.inv.status \notin {"completed", "deleted"}
                => after.created = before.created ]_vars

\* a deleted update in the project after which all three counters are 0
C21_Witness ==
  /\ ev.hook = "post"
  /\ ev.inv.tool = "TaskUpdate"
  /\ ev.inv.status = "deleted"
  /\ ev.inv.cwd = "project"
  /\ trackerFile # AbsentFile
  /\ readTaskTracker(trackerFile).created = 0
  /\ readTaskTracker(trackerFile).completed = 0
  /\ readTaskTracker(trackerFile).toolCallsSinceSummary = 0

\* ------------------------------------------------------------------------
\* C22. Fail-open protocol: for every standard-input payload the pre-check
\* and the post-check each write one JSON object to standard output and end
\* with exit status 0 (no run crashes), and on a payload that is not a JSON
\* object the pre-check allows and the post-check does nothing.
\* ------------------------------------------------------------------------
C22_FailOpen ==
  ev.hook \in {"pre", "post"}
  => /\ ev.out # "crash"
     /\ ev.payload # "object" => ev.out \in {"allow", "none"}

\* ------------------------------------------------------------------------
\* C23. Corrupt state is default state: a pre-check or post-check that finds
\* a present but malformed escalation-state file or task-tracker file reads
\* exactly what it reads from an absent file (all fields 0), and the
\* pre-check never issues the escalation denial when the escalation-state
\* file is malformed.
\* ------------------------------------------------------------------------
Malformed(file) ==
  \/ file.kind \in {"empty", "truncated", "corrupt"}
  \/ file.kind = "json" /\ file.reminderCount = NonNumeric

C23_CorruptIsDefault ==
  ev.hook \in {"pre", "post"}
  => /\ Malformed(reminderFile)
        => /\ readState(reminderFile) = readState(AbsentFile)
           /\ ev.hook = "pre" => ev.out # "deny_escalation"
     /\ trackerFile.kind \in {"empty", "truncated", "corrupt"}
        => readTaskTracker(trackerFile) = readTaskTracker(AbsentFile)

\* ------------------------------------------------------------------------
\* C24. Unresolvable root fails open: when no marker directory is at or
\* above the working directory and the session id has no valid entry in the
\* session registry, the pre-check allows the invocation, in every state of
\* every project.
\* ------------------------------------------------------------------------
C24_UnresolvableRootAllows ==
  ( /\ ev.hook = "pre"
    /\ ev.inv.cwd # "project"
    /\ ev.inv.session \notin registry )
  => ev.out = "allow"

\* a web call from an unrelated directory under an unregistered session id,
\* allowed while another session is registered and the project is escalated
\* with findings present, no save since and no consultation
C24_Witness ==
  /\ ev.hook = "pre"
  /\ ev.inv.tool = "WebFetch"
  /\ ev.inv.cwd = "outside"
  /\ ev.inv.session = "s2"
  /\ registry = {"s1"}
  /\ Persisted.reminderCount > ESCALATION_THRESHOLD
  /\ LatestSave <= Persisted.lastSaveTs
  /\ research.records >= 1
  /\ memCheckFile = NoFile
  /\ ev.out = "allow"

\* ------------------------------------------------------------------------
\* C25. Safelist dominates: a Shell command that matches the operational
\* safelist is classified Operational for every description, whatever the
\* description's keyword scores and whatever exploratory command signature
\* the rest of the command holds.
\* ------------------------------------------------------------------------
C25_SafelistDominates ==
  (ev.hook = "classify" /\ SAFE_OPERATIONAL_PATTERNS(ev.inv.command))
  => ev.out = "operational"

\* a safelisted command that goes on with a grep, under a description that
\* scores for exploration only
C25_Witness ==
  /\ ev.hook = "classify"
  /\ ev.inv.command = <<"cd", "src", "&&", "grep", "-r", "foo">>
  /\ ev.inv.description = SearchDesc
  /\ EXPLORATION_PATTERNS(ev.inv.command)
  /\ Cardinality(EXPLORATION_KEYWORDS(ev.inv.description)) = 1
  /\ Cardinality(OPERATIONAL_KEYWORDS(ev.inv.description)) = 0
  /\ ev.out = "operational"

\* ------------------------------------------------------------------------
\* C26. Classifier priority order for Shell commands off the safelist: with
\* a description longer than 5 characters a strictly greater exploration
\* score gives Exploratory and a strictly greater operational score gives
\* Operational, whatever the command; on a tie (0-0 included) and with a
\* description that is absent or at most 5 characters long the result is
\* Exploratory exactly when the command matches an exploratory signature.
\* ------------------------------------------------------------------------
C26_ClassifierPriority ==
  (ev.hook = "classify" /\ ~SAFE_OPERATIONAL_PATTERNS(ev.inv.command))
  => LET explorationScore == Cardinality(EXPLORATION_KEYWORDS(ev.inv.description))
         operationalScore == Cardinality(OPERATIONAL_KEYWORDS(ev.inv.description))
         trivial == DescLength(ev.inv.description) <= 5
     IN  /\ (~trivial /\ explorationScore > operationalScore)
              => ev.out = "exploratory"
         /\ (~trivial /\ operationalScore > explorationScore)
              => ev.out = "operational"
         /\ (trivial \/ explorationScore = operationalScore)
              => (ev.out = "exploratory" <=> EXPLORATION_PATTERNS(ev.inv.command))

\* a description of exactly 5 characters that scores for exploration, on a
\* command with no exploratory signature: the description is not scored
C26_Witness ==
  /\ ev.hook = "classify"
  /\ ev.inv.command = <<"find", ".", "-name", "foo">>
  /\ ev.inv.description = <<"debug">>
  /\ DescLength(ev.inv.description) = 5
  /\ Cardinality(EXPLORATION_KEYWORDS(ev.inv.description)) = 1
  /\ ev.out = "operational"

\* ------------------------------------------------------------------------
\* C27. Delegation is structural: a Task call is treated as Exploratory
\* exactly when its subagent kind is one of the five exploration-flavored
\* kinds.  For such a call the pre-check applies the consultation gate and
\* the post-check, below the checkpoint, force-escalates; for a Task call
\* with any other subagent kind the pre-check never issues the
\* consult-memory denial and the post-check leaves the escalation state and
\* the sentinel as they were and emits no save message.
\* ------------------------------------------------------------------------
ExplorationFlavored ==
  {"Explore", "Plan", "general-purpose",
   "feature-dev:code-explorer", "feature-dev:code-architect"}

C27_DelegationStructural ==
  [][ (ev'.inv.tool = "Task" /\ ev'.inv.cwd = "project")
      => /\ (ev'.hook = "pre" /\ ev'.inv.subagent \notin ExplorationFlavored)
              => ev'.out # "deny_memory"
         /\ ( /\ ev'.hook = "pre"
              /\ ev'.inv.subagent \in ExplorationFlavored
              /\ research.records >= 1
              /\ ~ConsultedWithinTTL )
              => ev'.out = "deny_memory"
         /\ (ev'.hook = "post" /\ ev'.inv.subagent \notin ExplorationFlavored)
              => /\ reminderFile' = reminderFile
                 /\ memCheckFile' = memCheckFile
                 /\ ev'.out \notin {"systemMessage", "block_save", "block_escalated"}
         /\ ( /\ ev'.hook = "post"
              /\ ev'.inv.subagent \in ExplorationFlavored
              /\ readTaskTracker(trackerFile').toolCallsSinceSummary
                   < SUMMARY_CHECKPOINT_CALLS )
              => /\ ev'.out = "block_save"
                 /\ readState(reminderFile').reminderCount = ESCALATION_THRESHOLD + 1
                 /\ memCheckFile' = NoFile ]_vars

\* the post-check of a delegation to a subagent outside the set, with
\* findings present: nothing emitted, the consultation still in place and
\* the escalation state still the default
C27_Witness ==
  /\ ev.hook = "post"
  /\ ev.inv.tool = "Task"
  /\ ev.inv.subagent = "code-simplifier"
  /\ ev.out = "none"
  /\ research.records >= 1
  /\ ConsultedWithinTTL
  /\ reminderFile = AbsentFile
  /\ readTaskTracker(trackerFile).toolCallsSinceSummary = 1

\* ------------------------------------------------------------------------
\* C28. The first exploratory Shell call in an empty project.
\* ------------------------------------------------------------------------
\* a fresh session in an empty project: the default escalation state, no
\* call counted yet, no decisions.jsonl and no research.jsonl
FreshEmptyProject ==
  /\ readState(reminderFile) = defaultState
  /\ readTaskTracker(trackerFile).toolCallsSinceSummary = 0
  /\ decisions = NoLog
  /\ research = NoLog

\* the hook run that ends in the next state is the one for a Shell call in
\* the project with an exploratory description
ShellCallDescribedAsExploring(hook) ==
  /\ ev'.hook = hook
  /\ ev'.inv.tool = "Bash"
  /\ ev'.inv.cwd = "project"
  /\ ExploratoryDescription(ev'.inv.description)

\* C28 as stated: in a fresh session of an empty project, every Shell call
\* with an exploratory description is allowed by the pre-check, and its
\* post-check emits the non-blocking advisory and persists reminderCount = 1.
\* (Calls of the plugin's own scripts, which no hook gates, are left aside.)
C28_FirstExploratoryShellCall ==
  [][ FreshEmptyProject
      => /\ ShellCallDescribedAsExploring("pre") => ev'.out = "allow"
         /\ (ShellCallDescribedAsExploring("post") /\ ~isSelfCall(ev'.inv))
              => /\ ev'.out = "systemMessage"
                 /\ readState(reminderFile').reminderCount = 1 ]_vars

\* C28 amended: the same, for the calls whose command is neither one of the
\* plugin's own scripts nor on the operational safelist; the state persisted
\* is {ts: now, reminderCount: 1, lastSaveTs: 0}.  For a command that is one
\* of the two, the pre-check allows and the post-check emits nothing and
\* leaves the escalation state as it was.
C28_FirstExploratoryShellCall_Amended ==
  [][ FreshEmptyProject
      => /\ ShellCallDescribedAsExploring("pre") => ev'.out = "allow"
         /\ ( /\ ShellCallDescribedAsExploring("post")
              /\ ~isSelfCall(ev'.inv)
              /\ ~SAFE_OPERATIONAL_PATTERNS(ev'.inv.command) )
              => /\ ev'.out = "systemMessage"
                 /\ reminderFile' =
                      StateJson([ts |-> now, reminderCount |-> 1, lastSaveTs |-> 0])
         /\ ( /\ ShellCallDescribedAsExploring("post")
              /\ (isSelfCall(ev'.inv) \/ SAFE_OPERATIONAL_PATTERNS(ev'.inv.command)) )
              => /\ ev'.out = "none"
                 /\ reminderFile' = reminderFile ]_vars

\* the post-check of the first call, a command the classifier knows nothing
\* about under an exploratory description, has advised and written count 1
C28_Witness ==
  /\ ev.hook = "post"
  /\ ev.inv.command = <<"python", "script.py">>
  /\ ev.inv.description = SearchDesc
  /\ ev.out = "systemMessage"
  /\ decisions = NoLog
  /\ research = NoLog
  /\ readTaskTracker(trackerFile).toolCallsSinceSummary = 1
  /\ reminderFile = StateJson([ts |-> now, reminderCount |-> 1, lastSaveTs |-> 0])

\* ------------------------------------------------------------------------
\* C29. Throttle window: the post-check of an exploratory Shell call that
\* reaches the gradual branch less than THROTTLE_MS after the persisted ts
\* emits no message and leaves the escalation state (reminderCount, ts,
\* lastSaveTs) as it was, even when a save newer than lastSaveTs exists.
\* ------------------------------------------------------------------------
C29_ThrottleWindow ==
  [][ ( /\ ev'.hook = "post"
        /\ ev'.inv.tool = "Bash"
        /\ ev'.inv.cwd = "project"
        /\ ~isSelfCall(ev'.inv)
        /\ isExploratoryBash(ev'.inv)
        /\ readTaskTracker(trackerFile').toolCallsSinceSummary < SUMMARY_CHECKPOINT_CALLS
        /\ now - readState(reminderFile).ts < THROTTLE_MS )
      => /\ ev'.out = "none"
         /\ reminderFile' = reminderFile
         /\ readState(reminderFile') = readState(reminderFile) ]_vars

\* a throttled post-check of a grep: a reminder was given in this window, a
\* save newer than the one last accounted for exists, nothing was emitted
\* and the count is still the one the reminder wrote
C29_Witness ==
  /\ ev.hook = "post"
  /\ ev.inv.command = GrepCmd
  /\ ev.inv.description = SearchDesc
  /\ ev.out = "none"
  /\ readTaskTracker(trackerFile).toolCallsSinceSummary < SUMMARY_CHECKPOINT_CALLS
  /\ reminderFile # AbsentFile
  /\ now - readState(reminderFile).ts < THROTTLE_MS
  /\ readState(reminderFile).reminderCount >= 1
  /\ getLastSaveTs(decisions, research) > readState(reminderFile).lastSaveTs

\* ------------------------------------------------------------------------
\* C30. Gentle reminders before blocking: in a session with no saves, the
\* first three unthrottled reminders issued for exploratory Shell calls are
\* non-blocking systemMessage advisories, and a blocking message is issued
\* only after three reminders have been ignored.  With no save and Shell
\* calls only, the reminderCount read by a post-check is the number of
\* reminders issued so far, so a reminder is a block exactly when that
\* number is already 3 or more.
\* ------------------------------------------------------------------------
GentleReminders == 3

C30_GentleBeforeBlocking ==
  [][ ( /\ ev'.hook = "post"
        /\ ev'.inv.tool = "Bash"
        /\ ev'.inv.cwd = "project"
        /\ decisions = NoLog
        /\ research = NoLog
        /\ ev'.out \in {"systemMessage", "block_escalated"} )
      => (ev'.out = "block_escalated"
            <=> readState(reminderFile).reminderCount >= GentleReminders) ]_vars

C32_LegacyDecode ==
  [][ /\ reminderFile'.kind = "legacy"
        => /\ readState(reminderFile') =
                [ts |-> reminderFile'.ts, reminderCount |-> 0, lastSaveTs |-> 0]
           /\ PreReadState(reminderFile') = readState(reminderFile')
      /\ (reminderFile.kind = "legacy" /\ ev'.hook = "pre")
        => ev'.out # "deny_escalation"
      /\ (reminderFile.kind = "legacy" /\ ev'.hook = "post"
          /\ ev'.out = "systemMessage")
        => reminderFile' =
             StateJson([ts |-> now, reminderCount |-> 1,
                        lastSaveTs |-> getLastSaveTs(decisions, research)]) ]_vars

\* the pre-check has run on a file in the old format that holds a timestamp
\* other than 0 and other than the one the run starts with
C32_Witness ==
  /\ ev.hook = "pre"
  /\ ev.out = "allow"
  /\ reminderFile = LegacyFile(2)

\* ------------------------------------------------------------------------
\* C33. The pre-check is read-only: whatever it answers (allow for a tool
\* that is not gated, for a call of the plugin's own scripts, for a root that
\* cannot be resolved, the consult-memory denial, the escalation denial, the
\* final allow), it leaves .last-reminder, .last-memory-check, .task-tracker,
\* decisions.jsonl and research.jsonl as they were.
\* ------------------------------------------------------------------------
C33_PreCheckReadOnly ==
  [][ ev'.hook = "pre"
      => /\ reminderFile' = reminderFile
         /\ memCheckFile' = memCheckFile
         /\ trackerFile' = trackerFile
         /\ decisions' = decisions
         /\ research' = research ]_vars

\* an escalation denial given while a consultation is on record and calls
\* have been counted: the consultation, the count of 3 and the call counter
\* are all still there
C33_Witness ==
  /\ ev.hook = "pre"
  /\ ev.out = "deny_escalation"
  /\ memCheckFile # NoFile
  /\ readState(reminderFile).reminderCount = ESCALATION_THRESHOLD + 1
  /\ readTaskTracker(trackerFile).toolCallsSinceSummary >= 1
  /\ research.records >= 1

\* ------------------------------------------------------------------------
\* C34. The post-check of a Shell call that runs save-decision,
\* save-research, check-memory or session-summary emits the empty object and
\* changes no persisted state: the call counter and the reminder count are
\* not incremented and the sentinel is not cleared.
\* ------------------------------------------------------------------------
RunsOwnScript(inv) ==
  /\ inv.tool = "Bash"
  /\ \E script \in {"save-decision", "save-research", "check-memory", "session-summary"} :
       includes(inv.command, script)

C34_SelfCallNoOp ==
  [][ (ev'.hook = "post" /\ RunsOwnScript(ev'.inv))
      => /\ ev'.out = "none"
         /\ reminderFile' = reminderFile
         /\ memCheckFile' = memCheckFile
         /\ trackerFile' = trackerFile
         /\ decisions' = decisions
         /\ research' = research ]_vars

\* the post-check of a session-summary call in the project, with calls
\* counted, a consultation on record and a reminder given: all still there
C34_Witness ==
  /\ ev.hook = "post"
  /\ ev.inv.command = SessionSummaryCmd
  /\ ev.inv.cwd = "project"
  /\ ev.out = "none"
  /\ memCheckFile # NoFile
  /\ readState(reminderFile).reminderCount >= 1
  /\ readTaskTracker(trackerFile).toolCallsSinceSummary >= 1

\* ------------------------------------------------------------------------
\* C35. Order of denials: when research.jsonl holds findings with no
\* consultation inside the TTL (the consultation gate is unmet) and the
\* reminder count is above the threshold with no save since (the escalation
\* gate is unmet), the pre-check of a WebFetch, a WebSearch or a Task for an
\* exploration subagent denies with the consult-memory reason, not with the
\* ignored-reminders reason.
\* ------------------------------------------------------------------------
BothGatesUnmet ==
  /\ research.records >= 1
  /\ ~ConsultedWithinTTL
  /\ readState(reminderFile).reminderCount > ESCALATION_THRESHOLD
  /\ getLastSaveTs(decisions, research) <= readState(reminderFile).lastSaveTs

C35_ConsultDenialFirst ==
  [][ ( /\ ev'.hook = "pre"
        /\ ev'.inv.cwd = "project"
        /\ \/ ev'.inv.tool \in {"WebFetch", "WebSearch"}
           \/ ev'.inv.tool = "Task" /\ ev'.inv.subagent \in ExplorationFlavored
        /\ BothGatesUnmet )
      => ev'.out = "deny_memory" ]_vars

\* a WebSearch denied for want of a consultation while the session is
\* escalated as well
C35_Witness ==
  /\ ev.hook = "pre"
  /\ ev.inv.tool = "WebSearch"
  /\ ev.out = "deny_memory"
  /\ BothGatesUnmet

\* ------------------------------------------------------------------------
\* C36. Checkpoint precedence and persistence: the gated-call counter goes
\* down only when session-summary or a session start writes 0; and while it
\* is at or above SUMMARY_CHECKPOINT_CALLS every post-check of a gated call
\* that is not a self call (project root resolved) emits the checkpoint
\* block and leaves .last-reminder and .last-memory-check as they were, a
\* WebFetch, WebSearch or exploration Task included.
\* ------------------------------------------------------------------------
C36_CheckpointPrecedence ==
  [][ /\ ( /\ CountedPost
           /\ readTaskTracker(trackerFile).toolCallsSinceSummary
                >= SUMMARY_CHECKPOINT_CALLS )
        => /\ ev'.out = "block_checkpoint"
           /\ reminderFile' = reminderFile
           /\ memCheckFile' = memCheckFile
      /\ ( readTaskTracker(trackerFile').toolCallsSinceSummary
             < readTaskTracker(trackerFile).toolCallsSinceSummary )
        => /\ ev'.hook \in {"session-summary", "start"}
           /\ readTaskTracker(trackerFile').toolCallsSinceSummary = 0 ]_vars

\* a WebFetch after the threshold was reached: the checkpoint block, the
\* session still calm and the consultation still on record
C36_Witness ==
  /\ ev.hook = "post"
  /\ ev.inv.tool = "WebFetch"
  /\ ev.out = "block_checkpoint"
  /\ readTaskTracker(trackerFile).toolCallsSinceSummary = SUMMARY_CHECKPOINT_CALLS + 1
  /\ readState(reminderFile).reminderCount <= ESCALATION_THRESHOLD
  /\ ConsultedWithinTTL

\* ------------------------------------------------------------------------
\* C37. Independent unlock conditions.
\* ------------------------------------------------------------------------
\* check-memory changes neither the escalation state nor the logs, and a
\* save script neither creates nor refreshes the sentinel
UnlocksAreSeparate ==
  /\ ev'.hook = "check-memory"
       => /\ reminderFile' = reminderFile
          /\ decisions' = decisions
          /\ research' = research
  /\ ev'.hook \in {"save-decision", "save-research"}
       => memCheckFile' = memCheckFile

\* the pre-check of a WebFetch, a WebSearch or an exploration Task in the
\* project that finds the forced escalation still persisted, and allows
AllowedInForcedState ==
  /\ ev'.hook = "pre"
  /\ ev'.inv.cwd = "project"
  /\ \/ ev'.inv.tool \in {"WebFetch", "WebSearch"}
     \/ ev'.inv.tool = "Task" /\ ev'.inv.subagent \in ExplorationFlavored
  /\ readState(reminderFile).reminderCount = ESCALATION_THRESHOLD + 1
  /\ ev'.out = "allow"

\* C37 as stated: check-memory and the saves leave each other's condition
\* alone, and when the store was not empty at the forced escalation (the
\* lastSaveTs it recorded is the time of a log that held a record) such a
\* pre-check is allowed only when a check-memory has run since (the sentinel
\* the escalation removed is back) and a save has run since (the logs are
\* newer than that lastSaveTs).
C37_BothUnlocksAnyStore ==
  [][ /\ UnlocksAreSeparate
      /\ (AllowedInForcedState /\ readState(reminderFile).lastSaveTs > 0)
           => /\ memCheckFile # NoFile
              /\ getLastSaveTs(decisions, research) > readState(reminderFile).lastSaveTs
    ]_vars

\* C37 amended: the same with research.jsonl holding a finding; the sentinel
\* is then also inside the TTL.  With decisions only, the save alone unlocks.
C37_BothUnlocks ==
  [][ /\ UnlocksAreSeparate
      /\ AllowedInForcedState
           => getLastSaveTs(decisions, research) > readState(reminderFile).lastSaveTs
      /\ (AllowedInForcedState /\ research.records >= 1)
           => /\ memCheckFile # NoFile
              /\ now - memCheckFile < MEMORY_CHECK_TTL_MS ]_vars

\* a WebFetch allowed in the forced state with findings in the store: the
\* consultation and a save newer than the forced escalation are both there
C37_Witness ==
  /\ ev.hook = "pre"
  /\ ev.inv.tool = "WebFetch"
  /\ ev.out = "allow"
  /\ research.records >= 1
  /\ readState(reminderFile).reminderCount = ESCALATION_THRESHOLD + 1
  /\ memCheckFile # NoFile
  /\ getLastSaveTs(decisions, research) > readState(reminderFile).lastSaveTs

\* ------------------------------------------------------------------------
\* C38. Pre-check and post-check agree on scope: for the same working
\* directory and session id on the same file system both resolve a project
\* root or both resolve none, so a post-check for an invocation whose
\* pre-check failed open for want of a root advances neither the escalation
\* state nor the task tracker nor the sentinel.
\* ------------------------------------------------------------------------
C38_SameScope ==
  [][ ev'.hook = "post"
      => /\ PostResolveProjectRoot(ev'.inv) <=> PreResolveProjectRoot(ev'.inv)
         /\ ~PreResolveProjectRoot(ev'.inv)
              => /\ reminderFile' = reminderFile
                 /\ trackerFile' = trackerFile
                 /\ memCheckFile' = memCheckFile ]_vars

\* ------------------------------------------------------------------------
\* C39 (as stated): under any interleaving of post-check processes no
\* tracker increment is lost: every tracker write leaves the persisted
\* counters one event ahead of what was persisted just before it.
TrackerEvent(inv, tracker) ==
  CASE inv.tool = "TaskCreate" -> [tracker EXCEPT !.created = @ + 1]
    [] inv.tool = "TaskUpdate" -> [tracker EXCEPT !.completed = @ + 1]
    [] OTHER -> [tracker EXCEPT !.toolCallsSinceSummary = @ + 1]

C39_NoLostTrackerUpdate ==
  [][ \A p \in Procs :
        (inflight[p].pc = "tracker" /\ inflight'[p] = Idle)
          => readTaskTracker(trackerFile')
               = TrackerEvent(inflight[p].inv, readTaskTracker(trackerFile)) ]_vars

\* C39 (amended): every tracker write persists the counters that this
\* process read, with its own event added.  The increment of a process is
\* therefore kept when nothing was written between its read and its write,
\* and a process that read before another one wrote overwrites that write.
C39_TrackerWriteFromOwnRead ==
  [][ \A p \in Procs :
        (inflight[p].pc = "tracker" /\ inflight'[p] = Idle)
          => /\ readTaskTracker(trackerFile')
                  = TrackerEvent(inflight[p].inv, inflight[p].tracker)
             /\ inflight[p].tracker = readTaskTracker(trackerFile)
                  => readTaskTracker(trackerFile')
                       = TrackerEvent(inflight[p].inv,
                                      readTaskTracker(trackerFile)) ]_vars

\* one process has written its gated-call increment while the other still
\* holds the counters it read before that write
C39_Witness ==
  /\ ev.hook = "post"
  /\ ev.inv.tool = "Bash"
  /\ inflight["p1"] = Idle
  /\ inflight["p2"].pc = "tracker"
  /\ inflight["p2"].inv.tool = "Bash"
  /\ inflight["p2"].tracker.toolCallsSinceSummary + 1
       = readTaskTracker(trackerFile).toolCallsSinceSummary

\* ------------------------------------------------------------------------
\* C40: at session stop from a working directory with no marker at or
\* above it, the stop hook resolves the project root from the registry
\* entry that session start wrote for this session id, and only then is the
\* entry gone.
C40_StopFallbackOrdering ==
  [][ ( /\ ev'.hook = "stop"
        /\ ~findProjectRoot(ev'.inv.cwd)
        /\ ev'.inv.session \in registry )
        => /\ ev'.out = "summary"
           /\ ev'.inv.session \notin registry' ]_vars

====
